---- MODULE Spec2Model ----
(***************************************************************************)
(* Model of the annotation endpoints of PIMS (pims/api/annotation.py) and  *)
(* of mimetype_to_mpl_slug (pims/api/utils/mimetype.py).                   *)
(*                                                                         *)
(* A request is followed statement by statement through _show_mask,        *)
(* _show_crop or _show_drawing: every statement that calls a collaborator  *)
(* is one step, and the call with the arguments it was given is appended   *)
(* to the request's call log.  A Python exception raised by a step         *)
(* propagates out of the handler (the handlers hold no try/except).        *)
(*                                                                         *)
(* Character strings that the code converts (str.lower) are sequences of   *)
(* one-character strings; optional values are <<>> (None) or <<v>>.        *)
(***************************************************************************)
EXTENDS Integers, Sequences, FiniteSets, TLC

\* ------------------------------------------------------------------ bounds
\* Longest annotation list a request carries.
MaxAnnots == 2
\* config.output_size_limit: the pixel budget of the output safeguard.
OutputSizeLimit == 64

\* ------------------------------------------------------------ basic values
None == <<>>
Some(v) == <<v>>
IsNone(o) == o = <<>>
Val(o) == o[1]

Max(a, b) == IF a >= b THEN a ELSE b
Min(a, b) == IF a <= b THEN a ELSE b
\* a / b rounded to the nearest integer (b > 0, a >= 0)
RoundDiv(a, b) == (2 * a + b) \div (2 * b)
RECURSIVE Pow2(_)
Pow2(n) == IF n <= 0 THEN 1 ELSE 2 * Pow2(n - 1)

\* ------------------------------------------------------- character strings
UPPER == <<"A","B","C","D","E","F","G","H","I","J","K","L","M",
           "N","O","P","Q","R","S","T","U","V","W","X","Y","Z">>
LOWER == <<"a","b","c","d","e","f","g","h","i","j","k","l","m",
           "n","o","p","q","r","s","t","u","v","w","x","y","z">>
\* str.lower() on one character, then on a string
LowerChar(c) ==
    IF \E i \in DOMAIN UPPER : UPPER[i] = c
    THEN LOWER[CHOOSE i \in DOMAIN UPPER : UPPER[i] = c]
    ELSE c
lower(s) == [i \in DOMAIN s |-> LowerChar(s[i])]

s_image == <<"i","m","a","g","e">>
s_slash == <<"/">>
s_png == <<"p","n","g">>
s_jpg == <<"j","p","g">>
s_jpeg == <<"j","p","e","g">>
s_webp == <<"w","e","b","p">>
s_PNG == <<"P","N","G">>
s_JPEG == <<"J","P","E","G">>
s_WEBP == <<"W","E","B","P">>

\* dict.update: the entries of d2 added to d1, d2 winning on a shared key
update(d1, d2) ==
    [k \in (DOMAIN d1) \cup (DOMAIN d2) |-> IF k \in DOMAIN d2 THEN d2[k] ELSE d1[k]]
EmptyDict == [k \in {} |-> <<>>]

PNG_MIMETYPES == [k \in {s_image \o s_slash \o s_png} |-> s_PNG]
WEBP_MIMETYPES == [k \in {s_image \o s_slash \o s_webp} |-> s_WEBP]
JPEG_MIMETYPES ==
    [k \in {s_image \o s_slash \o s_jpg, s_image \o s_slash \o s_jpeg} |-> s_JPEG]

\* The module-level dictionary as built at import time.
SupportedAtImport ==
    update(update(update(EmptyDict, PNG_MIMETYPES), JPEG_MIMETYPES), WEBP_MIMETYPES)

UnsupportedMediaTypeProblem == "UnsupportedMediaTypeProblem"

\* mimetype_to_mpl_slug(mimetype) on the dictionary d: the slug, or the
\* exception it raises.
mimetype_to_mpl_slug_mut(d, mimetype) ==
    IF mimetype \notin DOMAIN d
    THEN [raised |-> None, value |-> Some(mimetype)]
    ELSE [raised |-> None, value |-> Some(lower(d[mimetype]))]
mimetype_to_mpl_slug(d, mimetype) ==
    IF mimetype \notin DOMAIN d
    THEN [raised |-> Some(UnsupportedMediaTypeProblem), value |-> None]
    ELSE [raised |-> None, value |-> Some(lower(d[mimetype]))]

\* Mime types a caller may pass: type, separator and subtype put together.
MimeTypesParts ==
    {s_image, <<"I","M","A","G","E">>, <<"t","e","x","t">>,
     <<"a","p","p","l","i","c","a","t","i","o","n">>, <<>>}
MimeSeparators == {s_slash, <<>>}
MimeSubtypes ==
    {s_png, s_PNG, s_jpg, s_jpeg, s_JPEG, s_webp, <<"g","i","f">>,
     <<"t","i","f","f">>, <<"x","-","p","n","g">>, <<>>}
MimeInputs ==
    {t \o sep \o s : t \in MimeTypesParts, sep \in MimeSeparators, s \in MimeSubtypes}

\* ------------------------------------------------------------------ colours
\* Color((r, g, b)): parse_tuple keeps the three channels.
Color(r, g, b) == [r |-> r, g |-> g, b |-> b]
WHITE == Color(255, 255, 255)
RED == Color(255, 0, 0)
BLUE == Color(0, 0, 255)

\* ------------------------------------------------------- the source image
\* The spatial representation path.get_spatial() returns when it exists:
\* a 16 x 16 image whose pyramid has zooms 0..2 and levels 0..2.
Image == [width |-> 16, height |-> 16,
          pyramid |-> [max_zoom |-> 2, max_level |-> 2]]

\* ------------------------------------------------------ annotation payloads
\* A geometry is given by its kind and its envelope (x0, y0)-(x1, y1); a
\* Point has x0 = x1 and y0 = y1.  "Malformed" stands for coordinates the
\* parser cannot read.
Geometry(kind, x0, y0, x1, y1) ==
    [kind |-> kind, x0 |-> x0, y0 |-> y0, x1 |-> x1, y1 |-> y1]
Payload(geom, fill, stroke, swidth) ==
    [geometry |-> geom, fill_color |-> fill, stroke_color |-> stroke,
     stroke_width |-> swidth]
StyleFields == {"fill_color", "stroke_color", "stroke_width"}

Payloads ==
    { Payload(Geometry("Point", 4, 6, 4, 6), None, None, None),
      Payload(Geometry("Polygon", 2, 2, 10, 6), Some(RED), Some(BLUE), Some(3)),
      Payload(Geometry("Malformed", 0, 0, 0, 0), Some(RED), None, None) }

RECURSIVE SeqsUpTo(_, _)
SeqsUpTo(S, n) ==
    IF n = 0 THEN {<<>>}
    ELSE LET shorter == SeqsUpTo(S, n - 1)
         IN  shorter \cup {Append(q, x) : q \in shorter, x \in S}

\* body.annotations: one payload, or a non-empty list of payloads.
AnnotationInputs ==
    [list : {FALSE}, one : Payloads, items : {<<>>}]
    \cup [list : {TRUE}, one : {None}, items : SeqsUpTo(Payloads, MaxAnnots) \ {<<>>}]

\* ensure_list(value): a list is kept, a single value becomes a one-item list
ensure_list(a) == IF a.list THEN a.items ELSE <<a.one>>

\* -------------------------------------------------------- Annotation Parser
InvalidGeometryError == "InvalidGeometryError"

\* One style field of a parsed annotation: dropped when ignored, else the
\* payload's value, else the default, else None.
StyleField(item, f, ignore_fields, default) ==
    IF f \in ignore_fields THEN None
    ELSE IF ~IsNone(item[f]) THEN item[f]
    ELSE IF f \in DOMAIN default THEN Some(default[f])
    ELSE None

\* Origin normalisation: with a bottom-left origin y becomes im_height - y.
FlipY(g, origin, im_height) ==
    IF origin = "LEFT_BOTTOM"
    THEN [g EXCEPT !.y0 = im_height - g.y1, !.y1 = im_height - g.y0]
    ELSE g

\* A Point becomes a square envelope of side point_envelope_length.
Envelope(g, point_envelope_length) ==
    IF g.kind = "Point" /\ ~IsNone(point_envelope_length)
    THEN LET half == Val(point_envelope_length) \div 2
         IN  [g EXCEPT !.x0 = g.x0 - half, !.y0 = g.y0 - half,
                       !.x1 = g.x0 - half + Val(point_envelope_length),
                       !.y1 = g.y0 - half + Val(point_envelope_length)]
    ELSE g

ParseOne(item, ignore_fields, default, origin, im_height, point_envelope_length) ==
    [geometry |-> Envelope(FlipY(item.geometry, origin, im_height), point_envelope_length),
     fill_color |-> StyleField(item, "fill_color", ignore_fields, default),
     stroke_color |-> StyleField(item, "stroke_color", ignore_fields, default),
     stroke_width |-> StyleField(item, "stroke_width", ignore_fields, default)]

\* The bounding rectangle of the parsed geometries.
Bounds(items) ==
    LET I == DOMAIN items
        x0 == CHOOSE v \in {items[i].geometry.x0 : i \in I} :
                  \A i \in I : v <= items[i].geometry.x0
        y0 == CHOOSE v \in {items[i].geometry.y0 : i \in I} :
                  \A i \in I : v <= items[i].geometry.y0
        x1 == CHOOSE v \in {items[i].geometry.x1 : i \in I} :
                  \A i \in I : v >= items[i].geometry.x1
        y1 == CHOOSE v \in {items[i].geometry.y1 : i \in I} :
                  \A i \in I : v >= items[i].geometry.y1
    IN  [left |-> x0, top |-> y0, width |-> x1 - x0, height |-> y1 - y0]

\* parse_annotations(raw_items, ignore_fields, default, point_envelope_length,
\* origin, im_height): the collection, or InvalidGeometryError.
parse_annotations(a) ==
    IF a.raw_items = <<>>
       \/ \E i \in DOMAIN a.raw_items : a.raw_items[i].geometry.kind = "Malformed"
    THEN [raised |-> Some(InvalidGeometryError), value |-> None]
    ELSE LET items == [i \in DOMAIN a.raw_items |->
                          ParseOne(a.raw_items[i], a.ignore_fields, a.default,
                                   a.origin, a.im_height, a.point_envelope_length)]
         IN  [raised |-> None,
              value |-> Some([items |-> items, region |-> Bounds(items)])]

\* ---------------------------------------------------------- Region Resolver
\* Expansion of a rectangle by context_factor around its centre.
Expand(rg, context_factor) ==
    LET w == rg.width * context_factor
        h == rg.height * context_factor
    IN  [left |-> rg.left - (w - rg.width) \div 2,
         top |-> rg.top - (h - rg.height) \div 2,
         width |-> w, height |-> h]

\* The shorter side extended to the longer one, re-centred.
Square(rg) ==
    LET side == Max(rg.width, rg.height)
    IN  [left |-> rg.left - (side - rg.width) \div 2,
         top |-> rg.top - (side - rg.height) \div 2,
         width |-> side, height |-> side]

\* Clipping to the image's extent.
Clip(rg, im) ==
    LET l == Min(Max(rg.left, 0), im.width)
        t == Min(Max(rg.top, 0), im.height)
        r == Max(Min(rg.left + rg.width, im.width), l)
        b == Max(Min(rg.top + rg.height, im.height), t)
    IN  [left |-> l, top |-> t, width |-> r - l, height |-> b - t]

\* get_annotation_region(in_image, annots, context_factor, try_square=False)
get_annotation_region(a) ==
    LET expanded == Expand(a.annots.region, a.context_factor)
        squared == IF a.try_square THEN Square(expanded) ELSE expanded
    IN  Clip(squared, a.in_image)

\* ------------------------------------------------- zoom / level validation
InvalidZoomError == "InvalidZoomError"
InvalidLevelError == "InvalidLevelError"

\* check_zoom_validity(pyramid, zoom): an absent zoom is valid, a given one
\* must lie in [0, pyramid.max_zoom].
check_zoom_validity(pyramid, zoom) ==
    IF IsNone(zoom) \/ (0 <= Val(zoom) /\ Val(zoom) <= pyramid.max_zoom)
    THEN None ELSE Some(InvalidZoomError)

\* check_level_validity(pyramid, level): likewise in [0, pyramid.max_level].
check_level_validity(pyramid, level) ==
    IF IsNone(level) \/ (0 <= Val(level) /\ Val(level) <= pyramid.max_level)
    THEN None ELSE Some(InvalidLevelError)

\* ----------------------------------------------------------- Scale Resolver
\* One output axis: n * num / den rounded, never under one pixel; a
\* zero-sized region axis gives one pixel.
Scaled(n, num, den) == IF den = 0 THEN 1 ELSE Max(1, RoundDiv(n * num, den))

\* get_window_output_dimensions(in_image, region, height, width, length,
\* zoom, level): explicit dimensions first, then zoom, then level, else the
\* region's own size.
get_window_output_dimensions(a) ==
    LET rw == a.region.width
        rh == a.region.height
    IN  IF ~IsNone(a.width) THEN <<Val(a.width), Scaled(rh, Val(a.width), rw)>>
        ELSE IF ~IsNone(a.height) THEN <<Scaled(rw, Val(a.height), rh), Val(a.height)>>
        ELSE IF ~IsNone(a.length)
             THEN IF rw >= rh
                  THEN <<Val(a.length), Scaled(rh, Val(a.length), rw)>>
                  ELSE <<Scaled(rw, Val(a.length), rh), Val(a.length)>>
        ELSE IF ~IsNone(a.zoom)
             THEN LET f == Pow2(a.in_image.pyramid.max_zoom - Val(a.zoom))
                  IN  <<Scaled(rw, 1, f), Scaled(rh, 1, f)>>
        ELSE IF ~IsNone(a.level)
             THEN LET f == Pow2(Val(a.level))
                  IN  <<Scaled(rw, 1, f), Scaled(rh, 1, f)>>
        ELSE <<Max(1, rw), Max(1, rh)>>

\* ---------------------------------------------------------- Output Safeguard
\* Proportional downscaling, by halving both axes, until the pixel count fits.
RECURSIVE Downscale(_, _, _)
Downscale(limit, w, h) ==
    IF w * h <= limit \/ (w = 1 /\ h = 1) THEN <<w, h>>
    ELSE Downscale(limit, Max(1, w \div 2), Max(1, h \div 2))

\* safeguard_output_dimensions(safe_mode, limit, width, height): the
\* effective size; "UNSAFE" disables clamping.
safeguard_output_dimensions(safe_mode, limit, width, height) ==
    IF safe_mode = "UNSAFE" THEN <<width, height>>
    ELSE Downscale(limit, width, height)

\* --------------------------------------------------- Affine Transform Builder
\* annotation_crop_affine_matrix(annot_region, in_region, out_width,
\* out_height): scale factors out / region as fractions (1 when the region
\* axis is zero) and the translation taking the region's corner to (0, 0).
annotation_crop_affine_matrix(a) ==
    [sx |-> IF a.in_region.width = 0 THEN <<1, 1>>
            ELSE <<a.out_width, a.in_region.width>>,
     sy |-> IF a.in_region.height = 0 THEN <<1, 1>>
            ELSE <<a.out_height, a.in_region.height>>,
     tx |-> 0 - a.in_region.left,
     ty |-> 0 - a.in_region.top]

\* -------------------------------------------------- output format negotiation
NoAcceptableResponseMimetype == "NoAcceptableResponseMimetype"
\* The mime type an extension of the path stands for (None: no extension).
s_dot == <<".">>
s_text_html == <<"t","e","x","t","/","h","t","m","l">>
ExtensionMimetype(extension) == s_image \o s_slash \o Tail(extension)

\* get_output_format(extension, accept, supported): the extension decides
\* when there is one, else the Accept header; an unsupported type fails.
get_output_format(extension, accept, supported) ==
    LET wanted == IF ~IsNone(extension) THEN ExtensionMimetype(Val(extension))
                  ELSE accept
    IN  IF wanted \in DOMAIN supported
        THEN [raised |-> None, value |-> Some(<<supported[wanted], wanted>>)]
        ELSE [raised |-> Some(NoAcceptableResponseMimetype), value |-> None]

\* ------------------------------------------------------------ response headers
\* add_image_size_limit_header(headers, request_width, request_height,
\* safe_width, safe_height): the headers gain the requested and the
\* effective size when the two differ.
add_image_size_limit_header(headers, request_width, request_height, safe_width, safe_height) ==
    IF request_width = safe_width /\ request_height = safe_height
    THEN headers
    ELSE update(headers,
                [k \in {"X-Image-Size-Limit"} |->
                    [requested |-> <<request_width, request_height>>,
                     effective |-> <<safe_width, safe_height>>]])

\* ==================================================== pims/files/archive.py
\* ArchiveFormat(name, description, match); match is the matcher's name.
ArchiveFormat(name, description, match) ==
    [name |-> name, description |-> description, match |-> match]

\* signature[i] of Python, the signature being a sequence of bytes
Byte(signature, i) == signature[i + 1]

zip_match(signature) ==
    /\ Len(signature) > 3
    /\ Byte(signature, 0) = 80 /\ Byte(signature, 1) = 75
    /\ Byte(signature, 2) \in {3, 5, 7}
    /\ Byte(signature, 3) \in {4, 6, 8}

tar_match(signature) ==
    /\ Len(signature) > 261
    /\ Byte(signature, 257) = 117
    /\ Byte(signature, 258) = 115
    /\ Byte(signature, 259) = 116
    /\ Byte(signature, 260) = 97
    /\ Byte(signature, 261) = 114

gztar_match(signature) ==
    /\ Len(signature) > 2
    /\ Byte(signature, 0) = 31
    /\ Byte(signature, 1) = 139
    /\ Byte(signature, 2) = 8

bztar_match(signature) ==
    /\ Len(signature) > 2
    /\ Byte(signature, 0) = 66
    /\ Byte(signature, 1) = 90
    /\ Byte(signature, 2) = 104

xztar_match(signature) ==
    /\ Len(signature) > 5
    /\ Byte(signature, 0) = 253
    /\ Byte(signature, 1) = 55
    /\ Byte(signature, 2) = 122
    /\ Byte(signature, 3) = 88
    /\ Byte(signature, 4) = 90
    /\ Byte(signature, 5) = 0

\* The names n for which the module defines a function n_match
MatchFunctions == {"zip", "tar", "gztar", "bztar", "xztar"}

\* possible_format.match(signature)
Match(format, signature) ==
    CASE format.match = "zip" -> zip_match(signature)
      [] format.match = "tar" -> tar_match(signature)
      [] format.match = "gztar" -> gztar_match(signature)
      [] format.match = "bztar" -> bztar_match(signature)
      [] format.match = "xztar" -> xztar_match(signature)
      [] OTHER -> FALSE

\* shutil.get_archive_formats(): (name, description) pairs sorted by name.
\* tar and zip are always registered; gztar, bztar and xztar when the
\* interpreter has zlib, bz2 and lzma; "rar" stands for a format registered
\* by other code, for which the module has no matcher.
ShutilFormats ==
    << <<"bztar", "bzip2'ed tar-file">>, <<"gztar", "gzip'ed tar-file">>,
       <<"rar", "RAR file">>, <<"tar", "uncompressed tar file">>,
       <<"xztar", "xz'ed tar-file">>, <<"zip", "ZIP file">> >>
OptionalShutilFormats == {"bztar", "gztar", "rar", "xztar"}

RECURSIVE SelectSeq2(_, _)
\* the items of the sequence s whose name is in the set keep, in order
SelectSeq2(s, keep) ==
    IF s = <<>> THEN <<>>
    ELSE IF Head(s)[1] \in keep THEN <<Head(s)>> \o SelectSeq2(Tail(s), keep)
    ELSE SelectSeq2(Tail(s), keep)

RECURSIVE _build_archive_format_list(_)
\* _build_archive_format_list() over the formats shutil lists
_build_archive_format_list(extensions) ==
    IF extensions = <<>> THEN <<>>
    ELSE LET name == Head(extensions)[1]
             description == Head(extensions)[2]
             rest == _build_archive_format_list(Tail(extensions))
         IN  IF name \in MatchFunctions
             THEN <<ArchiveFormat(name, description, name)>> \o rest
             ELSE rest

NoMatchingFormatProblem == "NoMatchingFormatProblem"

\* The bytes self.signature() reads: `prefix`, then zeros up to length `len`,
\* with the tar magic "ustar" at offsets 257 to 261 when ustar is set.
UstarMagic == <<117, 115, 116, 97, 114>>
Sig(prefix, len, ustar) ==
    [i \in 1..len |->
        IF i <= Len(prefix) THEN prefix[i]
        ELSE IF ustar /\ i \in 258..262 THEN UstarMagic[i - 257]
        ELSE 0]
SignaturePrefixes ==
    { <<>>, <<80, 75, 3, 4>>, <<80, 75, 5, 6>>, <<80, 75, 7, 8>>,
      <<80, 75, 1, 2>>, <<80, 75, 3, 5>>, <<31, 139, 8>>, <<31, 139, 9>>,
      <<66, 90, 104>>, <<253, 55, 122, 88, 90, 0>>, <<253, 55, 122, 88, 90, 1>> }
SignatureLengths == {0, 3, 4, 6, 261, 262}
Signatures ==
    {Sig(p, n, u) : p \in SignaturePrefixes, n \in SignatureLengths, u \in BOOLEAN}

\* The values given as format=: none, a format of the list, a format the
\* caller built for an extension the module does not know.
FormatArgs ==
    { None, Some(ArchiveFormat("zip", "ZIP file", "zip")),
      Some(ArchiveFormat("7z", "7-Zip file", "none")) }

\* The loop over ARCHIVE_FORMATS is left on a match (break) or at its end.
LoopExit_nobreak(matched, i, n) == i >= n
LoopExit(matched, i, n) == matched \/ i >= n

\* archive.format
Archive_format(a) == a._format

\* ============================================== pims/processing/metadata.py
\* A Python value: the name of its type and its text, str(value).
PyStr(s) == [t |-> "str", s |-> s]
PyNone == [t |-> "NoneType", s |-> "None"]
PyInt0 == [t |-> "int", s |-> "0"]
PyEmptyList == [t |-> "list", s |-> "[]"]
PyEmptyDict == [t |-> "dict", s |-> "{}"]
\* bool(value)
Truthy(v) ==
    CASE v.t = "str" -> v.s # ""
      [] v.t = "NoneType" -> FALSE
      [] v.t = "int" -> v.s # "0"
      [] v.t = "list" -> v.s # "[]"
      [] v.t = "dict" -> v.s # "{}"
      [] OTHER -> TRUE
\* f"{value}"
Format(v) == v.s

\* sub in text, text.startswith(sub), text.find(sub), text[a:b] on strings
In(sub, text) ==
    \E i \in 1..(Len(text) - Len(sub) + 1) : SubSeq(text, i, i + Len(sub) - 1) = sub
startswith(text, sub) ==
    Len(text) >= Len(sub) /\ SubSeq(text, 1, Len(sub)) = sub
find(text, sub) ==
    IF In(sub, text)
    THEN (CHOOSE i \in 1..(Len(text) - Len(sub) + 1) :
             /\ SubSeq(text, i, i + Len(sub) - 1) = sub
             /\ \A j \in 1..(i - 1) : SubSeq(text, j, j + Len(sub) - 1) # sub) - 1
    ELSE -1
SliceIndex(text, a) ==
    IF a < 0 THEN Max(a + Len(text), 0) ELSE Min(a, Len(text))
Slice(text, a, b) == SubSeq(text, SliceIndex(text, a) + 1, SliceIndex(text, b))

\* The objects of the metadata: `kind` tells which branch of the parser's
\* dispatch takes them, `type` is type(x).__name__, `items` are the fields of
\* a dataclass, the entries of a dict or of an Attributes, the items of a list
\* (as <<name, object>> pairs), `value` is the value of a primitive or Enum.
Node(kind, type, items, value) ==
    [kind |-> kind, type |-> type, items |-> items, value |-> value]
Prim(v) == Node("primitive", v.t, <<>>, v)
EnumOf(v) == Node("Enum", "Enum", <<>>, v)
Model(type, fields) == Node("BP_MODEL", type, fields, PyNone)
ListOf(objects) ==
    Node("list", "list", [i \in DOMAIN objects |-> <<"", objects[i]>>], PyEmptyList)
DictOf(entries) == Node("dict", "dict", entries, PyEmptyDict)
AttributesOf(entries) == Node("Attributes", "Attributes", entries, PyEmptyList)
Reference(identifier) ==
    Model("Reference", << <<"identifier", Prim(PyStr(identifier))>> >>)

\* hasattr(item, "reference") and item.reference.identifier
HasReference(item) ==
    \E i \in DOMAIN item.items : item.items[i][1] = "reference"
ReferenceIdentifier(item) ==
    LET i == CHOOSE j \in DOMAIN item.items : item.items[j][1] = "reference"
    IN  Format(item.items[i][2].items[1][2].value)

\* The calls _parse_primitive(primitive, prefix) that parsing `anything`
\* under `prefix` makes, in order: the dispatch of self.parser, _parse_any,
\* _parse_dict, _parse_list and parse_dataclass.
RECURSIVE _parse_any(_, _), _parse_items(_, _, _)
_parse_items(kind, items, prefix) ==
    IF items = <<>> THEN <<>>
    ELSE LET name == Head(items)[1]
             item == Head(items)[2]
             suffix == IF kind \in {"list", "Attributes"}
                       THEN IF HasReference(item) THEN ReferenceIdentifier(item)
                            ELSE item.type
                       ELSE name
         IN  _parse_any(item, prefix \o "." \o suffix)
                 \o _parse_items(kind, Tail(items), prefix)
_parse_any(anything, prefix) ==
    CASE anything.kind = "BP_MODEL" ->
             _parse_items("BP_MODEL", anything.items, prefix)
      [] anything.kind = "Enum" ->
             << [prefix |-> prefix, primitive |-> anything.value] >>
      [] anything.kind \in {"dict", "list", "Attributes"} ->
             (IF anything.items = <<>>
              THEN << [prefix |-> prefix, primitive |-> anything.value] >>
              ELSE <<>>)
                 \o _parse_items(anything.kind, anything.items, prefix)
      [] OTHER ->
             << [prefix |-> prefix, primitive |-> anything.value] >>

\* self.parsed[prefix] = primitive
SetItem(d, k, v) == [x \in DOMAIN d \cup {k} |-> IF x = k THEN v ELSE d[x]]
\* {k: v for k, v in d.items() if keep(k)} for the keys in the set keys
Restrict(d, keys) == [k \in keys \cap DOMAIN d |-> d[k]]

\* _parse_primitive(primitive, prefix) on the parser `self`: the entry is
\* recorded, then the slide filter and the observation or being filter are
\* derived from the key.
_parse_primitive(self, primitive, prefix) ==
    LET parsed == SetItem(self.parsed, prefix, primitive)
        substring1 == Format(self.filters["image"]) \o ".slide.identifier"
        sets_slide == Truthy(self.filters["image"]) /\ In(substring1, prefix)
        filters1 == IF sets_slide
                    THEN [self.filters EXCEPT !["slide"] = parsed[prefix]]
                    ELSE self.filters
        substring2 == "slides." \o Format(filters1["slide"]) \o ".id"
        sets_link == Truthy(filters1["slide"]) /\ In(substring2, prefix)
        is_obs == In("OBSERVATION_", prefix)
        start == IF is_obs THEN find(prefix, "OBSERVATION_")
                 ELSE find(prefix, "BIOLOGICAL_BEING_")
        filters2 ==
            IF ~sets_link THEN filters1
            ELSE IF is_obs
            THEN [filters1 EXCEPT !["obs"] = PyStr(Slice(prefix, start, start + 22))]
            ELSE [filters1 EXCEPT !["being"] = PyStr(Slice(prefix, start, start + 26))]
    IN  [self EXCEPT
           !.parsed = parsed,
           !.filters = filters2,
           !.recorded = @ \cup {<<prefix, primitive>>},
           !.assigned = @ \o (IF sets_slide THEN <<"slide">> ELSE <<>>)
                          \o (IF ~sets_link THEN <<>>
                              ELSE IF is_obs THEN <<"obs">> ELSE <<"being">>)]

\* self.parsed = {k: v for k, v in self.parsed.items() if v}
_remove_empty_variables_keep(parsed) == parsed
_remove_empty_variables(parsed) ==
    Restrict(parsed, {k \in DOMAIN parsed : Truthy(parsed[k])})

TypeError == "TypeError"
\* `x in k` evaluated for the keys of a dictionary: a TypeError when there
\* is a key and x is not a string.
InRaises(x, d) == DOMAIN d # {} /\ x.t # "str"
Having(d, x) == Restrict(d, {k \in DOMAIN d : In(Format(x), k)})
NotHaving(d, text) == Restrict(d, {k \in DOMAIN d : ~In(text, k)})

\* self._filter(): the dictionary returned, or the exception raised.
_filter(parsed, filters) ==
    IF filters["image"] = PyNone THEN [raised |-> None, value |-> Some(parsed)]
    ELSE
    LET dataset == Restrict(parsed, {k \in DOMAIN parsed : startswith(k, "DATASET")})
        study == Restrict(parsed, {k \in DOMAIN parsed : startswith(k, "STUDY")})
        beings == Restrict(parsed,
                           {k \in DOMAIN parsed : startswith(k, "BIOLOGICAL_BEING")})
    IN  IF \/ InRaises(filters["image"], dataset)
           \/ InRaises(filters["slide"], dataset)
           \/ InRaises(filters["obs"], dataset)
           \/ InRaises(filters["being"], beings)
        THEN [raised |-> Some(TypeError), value |-> None]
        ELSE LET base1 == update(study, Having(dataset, filters["image"]))
                 base2 == update(base1, Having(dataset, filters["slide"]))
                 observation == Having(dataset, filters["obs"])
                 base3 == update(base2, NotHaving(observation, "slides"))
                 being == Having(beings, filters["being"])
                 base4 == update(base3, NotHaving(being, "slides"))
             IN  IF InRaises(filters["slide"], being)
                 THEN [raised |-> Some(TypeError), value |-> None]
                 ELSE [raised |-> None,
                       value |-> Some(update(base4, Having(being, filters["slide"])))]

\* ================================================= pims/processing/color.py
\* A float c in [0, 1] is kept as the fraction num / den it was computed as.
Fraction(num, den) == [num |-> num, den |-> den]
\* An integer of [0, 2^32), kept as its two 16-bit halves hi * 2^16 + lo.
Int32(hi, lo) == [hi |-> hi, lo |-> lo]
\* value >> n & 255, (x & 255) << n and x | y (of integers with no bit in
\* common), for n in {0, 8, 16, 24}
ShiftAnd255(value, n) ==
    IF n >= 16 THEN (value.hi \div Pow2(n - 16)) % 256
    ELSE (value.lo \div Pow2(n)) % 256
And255Shift(x, n) ==
    IF n >= 16 THEN Int32((x % 256) * Pow2(n - 16), 0)
    ELSE Int32(0, (x % 256) * Pow2(n))
BitOr(x, y) == Int32(x.hi + y.hi, x.lo + y.lo)

\* pydantic.color.parse_color_value(value): value / 255
parse_color_value(value) == Fraction(value, 255)
\* pydantic.color.parse_float_alpha(alpha): None for an alpha (almost) equal
\* to 1, the alpha otherwise
parse_float_alpha(alpha) ==
    IF alpha.num = alpha.den THEN None ELSE Some(alpha)
\* pydantic.color.ints_to_rgba(r, g, b, alpha): the RGBA tuple
ints_to_rgba(r, g, b, alpha) ==
    <<Some(parse_color_value(r)), Some(parse_color_value(g)),
      Some(parse_color_value(b)), parse_float_alpha(alpha)>>
\* pydantic.color.float_to_255(c): int(round(c * 255)); c * 255 with c None
\* is a TypeError
float_to_255(c) ==
    IF IsNone(c) THEN [raised |-> Some("TypeError"), value |-> None]
    ELSE [raised |-> None, value |-> Some(RoundDiv(Val(c).num * 255, Val(c).den))]

\* parse_int(value)
parse_int(value) ==
    LET r == ShiftAnd255(value, 24)
        g == ShiftAnd255(value, 16)
        b == ShiftAnd255(value, 8)
        a == Fraction(ShiftAnd255(value, 0), 255)
    IN  ints_to_rgba(r, g, b, a)

\* Color.as_int(alpha) on a color whose _rgba is rgba; alpha is None, True
\* or False
as_int(rgba, alpha) ==
    LET r == float_to_255(rgba[1])
        g == float_to_255(rgba[2])
        b == float_to_255(rgba[3])
        a == IF IsNone(alpha)
             THEN IF IsNone(rgba[4]) THEN [raised |-> None, value |-> Some(0)]
                  ELSE float_to_255(rgba[4])
             ELSE IF Val(alpha) THEN float_to_255(rgba[4])
             ELSE [raised |-> None, value |-> Some(0)]
    IN  IF \E x \in {r, g, b, a} : ~IsNone(x.raised)
        THEN [raised |-> Some("TypeError"), value |-> None]
        ELSE [raised |-> None,
              value |-> Some(BitOr(BitOr(And255Shift(Val(r.value), 24),
                                         And255Shift(Val(g.value), 16)),
                                   BitOr(And255Shift(Val(b.value), 8),
                                         And255Shift(Val(a.value), 0))))]

\* ===================================================================== state
Reqs == {1, 2}

VARIABLES
    pc,                   \* per request: the statement it stands before
    req,                  \* per request: what the route handler received
    locals,               \* per request: the local variables of _show_*
    calls,                \* per request: the calls made so far, in order
    response,             \* per request: the response returned, if any
    raised,               \* per request: the exception that left the handler
    SUPPORTED_MIMETYPES,  \* module-level dictionary of mimetype.py
    mime_pc, mime_arg, mime_ret,  \* one caller of mimetype_to_mpl_slug
    ARCHIVE_FORMATS,      \* module-level list of archive.py
    archive,              \* one construction of an Archive
    bp_parser,            \* one BPMetadataParser object and its parse call
    color_call            \* one Color built from an integer and read back

vars == <<pc, req, locals, calls, response, raised, SUPPORTED_MIMETYPES,
          mime_pc, mime_arg, mime_ret, ARCHIVE_FORMATS, archive, bp_parser,
          color_call>>
mime_vars == <<mime_pc, mime_arg, mime_ret>>
lib_vars == <<ARCHIVE_FORMATS, archive, bp_parser, color_call>>
req_vars == <<pc, req, locals, calls, response, raised>>

\* The library objects when nothing uses them.
Off == [pc |-> "off"]
LibOff ==
    /\ ARCHIVE_FORMATS = _build_archive_format_list(ShutilFormats)
    /\ archive = Off
    /\ bp_parser = Off
    /\ color_call = Off

NoReq == [mode |-> "none"]
NoLocals ==
    [in_image |-> None, annots |-> None, region |-> None, out_format |-> None,
     mimetype |-> None, req_size |-> None, out_size |-> None, affine |-> None,
     annot_style |-> None, window |-> None]

\* ----------------------------------------------------------- request inputs
\* The scale fields of a body: none, one, or (the handlers do not check
\* their exclusivity) an invalid zoom together with an invalid level.
Scale(height, width, length, zoom, level) ==
    [height |-> height, width |-> width, length |-> length, zoom |-> zoom,
     level |-> level]
ScaleInputs ==
    { Scale(None, None, None, None, None),
      Scale(None, Some(8), None, None, None),
      Scale(None, None, Some(32), None, None),
      Scale(None, None, None, Some(1), None),
      Scale(None, None, None, Some(5), None),
      Scale(None, None, None, None, Some(1)),
      Scale(None, None, None, None, Some(7)),
      Scale(None, None, None, Some(5), Some(7)) }
ContextFactors == {1, 2}
\* (extension of the path, Accept header)
FormatInputs ==
    { <<Some(s_dot \o s_png), s_text_html>>,
      <<None, s_image \o s_slash \o s_jpeg>>,
      <<None, s_text_html>> }
HeaderInputs ==
    { [safe_mode |-> "SAFE_RESIZE", annot_origin |-> "LEFT_TOP"],
      [safe_mode |-> "UNSAFE", annot_origin |-> "LEFT_BOTTOM"] }
\* (background_transparency, bits, colorspace) of a crop request
CropInputs == {<<100, 8, "AUTO">>, <<0, 16, "GRAY">>}
\* (try_square, point_cross, point_envelope_length) of a drawing request
DrawingInputs ==
    { <<FALSE, "CROSS", None>>, <<TRUE, "CROSS", Some(2)>>, <<FALSE, "NONE", Some(2)>> }
\* bits and colorspace members a client puts in the JSON of a request
JsonInputs == {<<8, "AUTO">>, <<16, "GRAY">>}

Headers(h, f) ==
    [safe_mode |-> h.safe_mode, annot_origin |-> h.annot_origin, accept |-> f[2]]
Config == [output_size_limit |-> OutputSizeLimit]

\* What show_mask, show_crop and show_drawing receive: the body (the fields
\* of the request model), the extension, the headers and the configuration;
\* json holds the bits and colorspace members of the JSON sent.
MaskRequest(a, cf, sc, f, h) ==
    [mode |-> "mask",
     json |-> [bits |-> None, colorspace |-> None],
     body |-> [annotations |-> a, context_factor |-> cf,
               height |-> sc.height, width |-> sc.width,
               length |-> sc.length, zoom |-> sc.zoom,
               level |-> sc.level],
     extension |-> f[1], headers |-> Headers(h, f),
     config |-> Config]
CropRequest(a, cf, sc, f, h, c) ==
    [mode |-> "crop",
     json |-> [bits |-> Some(c[2]), colorspace |-> Some(c[3])],
     body |-> [annotations |-> a, context_factor |-> cf,
               background_transparency |-> c[1],
               height |-> sc.height, width |-> sc.width,
               length |-> sc.length, zoom |-> sc.zoom,
               level |-> sc.level,
               bits |-> c[2], colorspace |-> c[3]],
     extension |-> f[1], headers |-> Headers(h, f),
     config |-> Config]
DrawingRequest(a, cf, sc, f, h, d, j) ==
    [mode |-> "drawing",
     json |-> [bits |-> Some(j[1]), colorspace |-> Some(j[2])],
     body |-> [annotations |-> a, context_factor |-> cf,
               try_square |-> d[1], point_cross |-> d[2],
               point_envelope_length |-> d[3],
               height |-> sc.height, width |-> sc.width,
               length |-> sc.length, zoom |-> sc.zoom,
               level |-> sc.level],
     extension |-> f[1], headers |-> Headers(h, f),
     config |-> Config]

\* The requests two clients send at the same time.
PointPayload == Payload(Geometry("Point", 4, 6, 4, 6), None, None, None)
PolygonPayload ==
    Payload(Geometry("Polygon", 2, 2, 10, 6), Some(RED), Some(BLUE), Some(3))
BadPayload == Payload(Geometry("Malformed", 0, 0, 0, 0), Some(RED), None, None)
One(p) == [list |-> FALSE, one |-> p, items |-> <<>>]
List(ps) == [list |-> TRUE, one |-> None, items |-> ps]
SafeTop == [safe_mode |-> "SAFE_RESIZE", annot_origin |-> "LEFT_TOP"]
UnsafeBottom == [safe_mode |-> "UNSAFE", annot_origin |-> "LEFT_BOTTOM"]
AsPng == <<Some(s_dot \o s_png), s_text_html>>
AsJpeg == <<None, s_image \o s_slash \o s_jpeg>>
ConcRequests ==
    { MaskRequest(List(<<PolygonPayload>>), 1,
                  Scale(None, None, Some(32), None, None), AsPng, SafeTop),
      MaskRequest(One(PointPayload), 2,
                  Scale(None, None, None, None, None), AsJpeg, UnsafeBottom),
      MaskRequest(List(<<PolygonPayload, PointPayload>>), 2,
                  Scale(None, None, None, Some(1), None), AsPng, UnsafeBottom),
      MaskRequest(List(<<PolygonPayload, BadPayload>>), 1,
                  Scale(None, None, None, None, None), AsPng, SafeTop),
      MaskRequest(One(PolygonPayload), 1,
                  Scale(None, None, None, Some(5), Some(7)), AsJpeg, SafeTop),
      CropRequest(One(PolygonPayload), 2,
                  Scale(None, Some(8), None, None, None), AsPng, SafeTop,
                  <<0, 16, "GRAY">>),
      DrawingRequest(List(<<PointPayload>>), 1,
                     Scale(None, None, None, None, Some(1)), AsJpeg, UnsafeBottom,
                     <<TRUE, "CROSS", Some(2)>>, <<16, "GRAY">>),
      DrawingRequest(One(PolygonPayload), 2,
                     Scale(None, None, Some(32), None, None),
                     <<None, s_text_html>>, SafeTop,
                     <<FALSE, "NONE", None>>, <<8, "AUTO">>) }

Init ==
    /\ pc = [r \in Reqs |-> IF r = 1 THEN "idle" ELSE "off"]
    /\ req = [r \in Reqs |-> NoReq]
    /\ locals = [r \in Reqs |-> NoLocals]
    /\ calls = [r \in Reqs |-> <<>>]
    /\ response = [r \in Reqs |-> None]
    /\ raised = [r \in Reqs |-> None]
    /\ SUPPORTED_MIMETYPES = SupportedAtImport
    /\ mime_pc = "off"
    /\ mime_arg = None
    /\ mime_ret = None
    /\ LibOff

\* ------------------------------------------------------------ route handlers
\* show_mask: the body is AnnotationMaskRequest.
show_mask(r) ==
    /\ pc[r] = "idle"
    /\ \E a \in AnnotationInputs, cf \in ContextFactors, sc \in ScaleInputs,
          f \in FormatInputs, h \in HeaderInputs :
          req' = [req EXCEPT ![r] = MaskRequest(a, cf, sc, f, h)]
    /\ pc' = [pc EXCEPT ![r] = "get_spatial"]
    /\ UNCHANGED <<locals, calls, response, raised, SUPPORTED_MIMETYPES, mime_vars, lib_vars>>

\* show_crop: the body is AnnotationCropRequest, which carries bits and
\* colorspace.
show_crop(r) ==
    /\ pc[r] = "idle"
    /\ \E a \in AnnotationInputs, cf \in ContextFactors, sc \in ScaleInputs,
          f \in FormatInputs, h \in HeaderInputs, c \in CropInputs :
          req' = [req EXCEPT ![r] = CropRequest(a, cf, sc, f, h, c)]
    /\ pc' = [pc EXCEPT ![r] = "get_spatial"]
    /\ UNCHANGED <<locals, calls, response, raised, SUPPORTED_MIMETYPES, mime_vars, lib_vars>>

\* show_drawing: the body is AnnotationDrawingRequest; _show_drawing takes
\* **body.dict() and has no bits or colorspace parameter, so the body has
\* neither, whatever the JSON of the request held.
show_drawing(r) ==
    /\ pc[r] = "idle"
    /\ \E a \in AnnotationInputs, cf \in ContextFactors, sc \in ScaleInputs,
          f \in FormatInputs, h \in HeaderInputs, d \in DrawingInputs,
          j \in JsonInputs :
          req' = [req EXCEPT ![r] = DrawingRequest(a, cf, sc, f, h, d, j)]
    /\ pc' = [pc EXCEPT ![r] = "get_spatial"]
    /\ UNCHANGED <<locals, calls, response, raised, SUPPORTED_MIMETYPES, mime_vars, lib_vars>>

\* ------------------------------------------------------- statement sequencing
\* The statements of each handler in source order, and of _show_window.
MaskOrder_mut ==
    <<"get_spatial", "check_representation", "parse", "region", "format", "level",
      "zoom", "dimensions", "safeguard", "affine", "response">>
MaskOrder ==
    <<"get_spatial", "check_representation", "parse", "region", "format", "zoom",
      "level", "dimensions", "safeguard", "affine", "response">>
CropOrder ==
    <<"get_spatial", "check_representation", "parse", "region", "window">>
DrawingOrder ==
    <<"get_spatial", "check_representation", "parse", "region", "window">>
WindowOrder ==
    <<"w_format", "w_zoom", "w_level", "w_dimensions", "w_safeguard", "w_response">>

Order(mode) ==
    CASE mode = "mask" -> MaskOrder
      [] mode = "crop" -> CropOrder \o WindowOrder
      [] mode = "drawing" -> DrawingOrder \o WindowOrder

\* The statement after `stage`; the last one returns the response.
NextStage(mode, stage) ==
    LET o == Order(mode)
        i == CHOOSE k \in DOMAIN o : o[k] = stage
    IN  IF i = Len(o) THEN "done" ELSE o[i + 1]

\* Control after a call: an exception leaves the handler (there is no
\* try/except in it), a normal return goes on to the next statement.
StepTo_mut(r, exc, next) ==
    /\ pc' = [pc EXCEPT ![r] = next]
    /\ raised' = [raised EXCEPT ![r] = exc]
StepTo(r, exc, next) ==
    /\ pc' = [pc EXCEPT ![r] = IF IsNone(exc) THEN next ELSE "failed"]
    /\ raised' = [raised EXCEPT ![r] = exc]

Ok(v) == [raised |-> None, value |-> Some(v)]
Checked(exc) == [raised |-> exc, value |-> None]

\* One statement of request r: the call fn(args) returning (or raising) res.
Step(r, fn, args, res) ==
    /\ calls' = [calls EXCEPT ![r] = Append(@, [fn |-> fn, args |-> args, ret |-> res])]
    /\ StepTo(r, res.raised, NextStage(req[r].mode, pc[r]))

At(r, mode, stage) == req[r].mode = mode /\ pc[r] = stage
Frame == <<req, response, SUPPORTED_MIMETYPES, mime_vars, lib_vars>>

\* ------------------------------------------------- statements shared by modes
\* in_image = path.get_spatial(): the representation, or None when the path
\* has none.
get_spatial(r) ==
    /\ pc[r] = "get_spatial"
    /\ \E im \in {None, Some(Image)} :
          /\ locals' = [locals EXCEPT ![r].in_image = im]
          /\ Step(r, "get_spatial", [path |-> r], [raised |-> None, value |-> im])
    /\ UNCHANGED Frame

NoRepresentation == "NoAppropriateRepresentationProblem"
\* check_representation_existence(in_image): raises when it is None
check_representation_existence(in_image) ==
    IF IsNone(in_image) THEN Some(NoRepresentation) ELSE None

check_representation(r) ==
    /\ pc[r] = "check_representation"
    /\ Step(r, "check_representation_existence",
            [in_image |-> locals[r].in_image],
            Checked(check_representation_existence(locals[r].in_image)))
    /\ UNCHANGED <<locals, Frame>>

\* ------------------------------------------------------------------ _show_mask
MaskIgnoreFields_mut == {"stroke_width"}
MaskIgnoreFields == {"stroke_width", "stroke_color"}
MaskDefault == [fill_color |-> WHITE]

_show_mask_parse_args(r) ==
    [raw_items |-> ensure_list(req[r].body.annotations),
     ignore_fields |-> MaskIgnoreFields,
     default |-> MaskDefault,
     point_envelope_length |-> None,
     origin |-> req[r].headers.annot_origin,
     im_height |-> Val(locals[r].in_image).height]

_show_mask_parse(r) ==
    /\ At(r, "mask", "parse")
    /\ LET a == _show_mask_parse_args(r)
           res == parse_annotations(a)
       IN  /\ locals' = [locals EXCEPT ![r].annots = res.value]
           /\ Step(r, "parse_annotations", a, res)
    /\ UNCHANGED Frame

_show_mask_region_args_mut(r) ==
    [in_image |-> Val(locals[r].in_image), annots |-> Val(locals[r].annots),
     context_factor |-> req[r].body.context_factor, try_square |-> TRUE]
_show_mask_region_args(r) ==
    [in_image |-> Val(locals[r].in_image), annots |-> Val(locals[r].annots),
     context_factor |-> req[r].body.context_factor, try_square |-> FALSE]

_show_mask_region(r) ==
    /\ At(r, "mask", "region")
    /\ LET a == _show_mask_region_args(r)
           res == Ok(get_annotation_region(a))
       IN  /\ locals' = [locals EXCEPT ![r].region = res.value]
           /\ Step(r, "get_annotation_region", a, res)
    /\ UNCHANGED Frame

_show_mask_format(r) ==
    /\ At(r, "mask", "format")
    /\ LET a == [extension |-> req[r].extension, accept |-> req[r].headers.accept]
           res == get_output_format(a.extension, a.accept, SUPPORTED_MIMETYPES)
       IN  /\ locals' = [locals EXCEPT
                           ![r].out_format = IF IsNone(res.value) THEN None
                                             ELSE Some(Val(res.value)[1]),
                           ![r].mimetype = IF IsNone(res.value) THEN None
                                           ELSE Some(Val(res.value)[2])]
           /\ Step(r, "get_output_format", a, res)
    /\ UNCHANGED Frame

_show_mask_zoom(r) ==
    /\ At(r, "mask", "zoom")
    /\ LET a == [pyramid |-> Val(locals[r].in_image).pyramid, zoom |-> req[r].body.zoom]
       IN  Step(r, "check_zoom_validity", a, Checked(check_zoom_validity(a.pyramid, a.zoom)))
    /\ UNCHANGED <<locals, Frame>>

_show_mask_level(r) ==
    /\ At(r, "mask", "level")
    /\ LET a == [pyramid |-> Val(locals[r].in_image).pyramid, level |-> req[r].body.level]
       IN  Step(r, "check_level_validity", a, Checked(check_level_validity(a.pyramid, a.level)))
    /\ UNCHANGED <<locals, Frame>>

_show_mask_dimensions(r) ==
    /\ At(r, "mask", "dimensions")
    /\ LET a == [in_image |-> Val(locals[r].in_image), region |-> Val(locals[r].region),
                 height |-> req[r].body.height, width |-> req[r].body.width,
                 length |-> req[r].body.length, zoom |-> req[r].body.zoom,
                 level |-> req[r].body.level]
           res == Ok(get_window_output_dimensions(a))
       IN  /\ locals' = [locals EXCEPT ![r].req_size = res.value]
           /\ Step(r, "get_window_output_dimensions", a, res)
    /\ UNCHANGED Frame

_show_mask_safeguard(r) ==
    /\ At(r, "mask", "safeguard")
    /\ LET a == [safe_mode |-> req[r].headers.safe_mode,
                 limit |-> req[r].config.output_size_limit,
                 width |-> Val(locals[r].req_size)[1],
                 height |-> Val(locals[r].req_size)[2]]
           res == Ok(safeguard_output_dimensions(a.safe_mode, a.limit, a.width, a.height))
       IN  /\ locals' = [locals EXCEPT ![r].out_size = res.value]
           /\ Step(r, "safeguard_output_dimensions", a, res)
    /\ UNCHANGED Frame

\* out_width, out_height = out_size, as the affine builder and MaskResponse
\* are given them
_show_mask_out_dims_mut(r) == Val(locals[r].req_size)
\* out_size kept where every request writes it: the latest one is read
_show_mask_out_dims_shared(r) ==
    IF \E q \in Reqs \ {r} : ~IsNone(locals[q].out_size)
    THEN Val(locals[CHOOSE q \in Reqs \ {r} : ~IsNone(locals[q].out_size)].out_size)
    ELSE Val(locals[r].out_size)
_show_mask_out_dims(r) == Val(locals[r].out_size)

_show_mask_affine(r) ==
    /\ At(r, "mask", "affine")
    /\ LET a == [annot_region |-> Val(locals[r].annots).region,
                 in_region |-> Val(locals[r].region),
                 out_width |-> _show_mask_out_dims(r)[1],
                 out_height |-> _show_mask_out_dims(r)[2]]
           res == Ok(annotation_crop_affine_matrix(a))
       IN  /\ locals' = [locals EXCEPT ![r].affine = res.value]
           /\ Step(r, "annotation_crop_affine_matrix", a, res)
    /\ UNCHANGED Frame

\* The arguments of add_image_size_limit_header after the dict:
\* *req_size, *out_size.
_show_mask_header_args_mut(r) == Val(locals[r].out_size) \o Val(locals[r].req_size)
_show_mask_header_args(r) == Val(locals[r].req_size) \o Val(locals[r].out_size)

_show_mask_response(r) ==
    /\ At(r, "mask", "response")
    /\ LET h == _show_mask_header_args(r)
           a == [in_image |-> Val(locals[r].in_image), annots |-> Val(locals[r].annots),
                 affine |-> Val(locals[r].affine),
                 out_width |-> _show_mask_out_dims(r)[1],
                 out_height |-> _show_mask_out_dims(r)[2],
                 out_bitdepth |-> 8, out_format |-> Val(locals[r].out_format)]
           resp == [kind |-> "MaskResponse", render |-> a,
                    mimetype |-> Val(locals[r].mimetype),
                    header_args |-> h,
                    extra_headers |->
                        add_image_size_limit_header(EmptyDict, h[1], h[2], h[3], h[4])]
       IN  /\ response' = [response EXCEPT ![r] = Some(resp)]
           /\ Step(r, "MaskResponse", a, Ok(resp))
    /\ UNCHANGED <<locals, req, SUPPORTED_MIMETYPES, mime_vars, lib_vars>>

\* ------------------------------------------------------------------ _show_crop
CropIgnoreFields == {"stroke_width", "stroke_color"}
CropDefault == [fill_color |-> WHITE]

_show_crop_parse_args(r) ==
    [raw_items |-> ensure_list(req[r].body.annotations),
     ignore_fields |-> CropIgnoreFields,
     default |-> CropDefault,
     point_envelope_length |-> None,
     origin |-> req[r].headers.annot_origin,
     im_height |-> Val(locals[r].in_image).height]

_show_crop_parse(r) ==
    /\ At(r, "crop", "parse")
    /\ LET a == _show_crop_parse_args(r)
           res == parse_annotations(a)
       IN  /\ locals' = [locals EXCEPT ![r].annots = res.value]
           /\ Step(r, "parse_annotations", a, res)
    /\ UNCHANGED Frame

_show_crop_region_args(r) ==
    [in_image |-> Val(locals[r].in_image), annots |-> Val(locals[r].annots),
     context_factor |-> req[r].body.context_factor, try_square |-> FALSE]

_show_crop_region(r) ==
    /\ At(r, "crop", "region")
    /\ LET a == _show_crop_region_args(r)
           res == Ok(get_annotation_region(a))
       IN  /\ locals' = [locals EXCEPT ![r].region = res.value]
           /\ Step(r, "get_annotation_region", a, res)
    /\ UNCHANGED Frame

\* The arguments of the call of _show_window (those the model follows).
_show_crop_window_args_mut(r) ==
    [region |-> Val(locals[r].region),
     height |-> req[r].body.height, width |-> req[r].body.width,
     length |-> req[r].body.length, zoom |-> req[r].body.zoom,
     level |-> req[r].body.level,
     bits |-> 8, colorspace |-> "AUTO",
     annots |-> Val(locals[r].annots),
     annot_style |-> [mode |-> "CROP",
                      background_transparency |-> req[r].body.background_transparency],
     extension |-> req[r].extension, headers |-> req[r].headers,
     config |-> req[r].config]
_show_crop_window_args(r) ==
    [region |-> Val(locals[r].region),
     height |-> req[r].body.height, width |-> req[r].body.width,
     length |-> req[r].body.length, zoom |-> req[r].body.zoom,
     level |-> req[r].body.level,
     bits |-> req[r].body.bits, colorspace |-> req[r].body.colorspace,
     annots |-> Val(locals[r].annots),
     annot_style |-> [mode |-> "CROP",
                      background_transparency |-> req[r].body.background_transparency],
     extension |-> req[r].extension, headers |-> req[r].headers,
     config |-> req[r].config]

\* annot_style = dict(...); return _show_window(...)
_show_crop_window(r) ==
    /\ At(r, "crop", "window")
    /\ LET a == _show_crop_window_args(r)
       IN  /\ locals' = [locals EXCEPT ![r].annot_style = Some(a.annot_style),
                                       ![r].window = Some(a)]
           /\ Step(r, "_show_window", a, Checked(None))
    /\ UNCHANGED Frame

\* --------------------------------------------------------------- _show_drawing
DrawingIgnoreFields == {"fill_color"}
DrawingDefault == [stroke_width |-> 1]

_show_drawing_parse_args(r) ==
    [raw_items |-> ensure_list(req[r].body.annotations),
     ignore_fields |-> DrawingIgnoreFields,
     default |-> DrawingDefault,
     point_envelope_length |-> req[r].body.point_envelope_length,
     origin |-> req[r].headers.annot_origin,
     im_height |-> Val(locals[r].in_image).height]

_show_drawing_parse(r) ==
    /\ At(r, "drawing", "parse")
    /\ LET a == _show_drawing_parse_args(r)
           res == parse_annotations(a)
       IN  /\ locals' = [locals EXCEPT ![r].annots = res.value]
           /\ Step(r, "parse_annotations", a, res)
    /\ UNCHANGED Frame

_show_drawing_region_args(r) ==
    [in_image |-> Val(locals[r].in_image), annots |-> Val(locals[r].annots),
     context_factor |-> req[r].body.context_factor,
     try_square |-> req[r].body.try_square]

_show_drawing_region(r) ==
    /\ At(r, "drawing", "region")
    /\ LET a == _show_drawing_region_args(r)
           res == Ok(get_annotation_region(a))
       IN  /\ locals' = [locals EXCEPT ![r].region = res.value]
           /\ Step(r, "get_annotation_region", a, res)
    /\ UNCHANGED Frame

\* bits is the literal 8 and colorspace the literal Colorspace.AUTO
_show_drawing_window_args(r) ==
    [region |-> Val(locals[r].region),
     height |-> req[r].body.height, width |-> req[r].body.width,
     length |-> req[r].body.length, zoom |-> req[r].body.zoom,
     level |-> req[r].body.level,
     bits |-> 8, colorspace |-> "AUTO",
     annots |-> Val(locals[r].annots),
     annot_style |-> [mode |-> "DRAWING", point_cross |-> req[r].body.point_cross,
                      point_envelope_length |-> req[r].body.point_envelope_length],
     extension |-> req[r].extension, headers |-> req[r].headers,
     config |-> req[r].config]

_show_drawing_window(r) ==
    /\ At(r, "drawing", "window")
    /\ LET a == _show_drawing_window_args(r)
       IN  /\ locals' = [locals EXCEPT ![r].annot_style = Some(a.annot_style),
                                       ![r].window = Some(a)]
           /\ Step(r, "_show_window", a, Checked(None))
    /\ UNCHANGED Frame

\* ---------------------------------------------------------------- _show_window
\* The window pipeline the crop and drawing handlers hand over to: format
\* negotiation, zoom and level validation, size resolution, safeguard, and
\* the response built from the composited raster.
Window(r) == Val(locals[r].window)

_show_window_format(r) ==
    /\ pc[r] = "w_format"
    /\ LET a == [extension |-> Window(r).extension, accept |-> Window(r).headers.accept]
           res == get_output_format(a.extension, a.accept, SUPPORTED_MIMETYPES)
       IN  /\ locals' = [locals EXCEPT
                           ![r].out_format = IF IsNone(res.value) THEN None
                                             ELSE Some(Val(res.value)[1]),
                           ![r].mimetype = IF IsNone(res.value) THEN None
                                           ELSE Some(Val(res.value)[2])]
           /\ Step(r, "get_output_format", a, res)
    /\ UNCHANGED Frame

_show_window_zoom(r) ==
    /\ pc[r] = "w_zoom"
    /\ LET a == [pyramid |-> Val(locals[r].in_image).pyramid, zoom |-> Window(r).zoom]
       IN  Step(r, "check_zoom_validity", a, Checked(check_zoom_validity(a.pyramid, a.zoom)))
    /\ UNCHANGED <<locals, Frame>>

_show_window_level(r) ==
    /\ pc[r] = "w_level"
    /\ LET a == [pyramid |-> Val(locals[r].in_image).pyramid, level |-> Window(r).level]
       IN  Step(r, "check_level_validity", a, Checked(check_level_validity(a.pyramid, a.level)))
    /\ UNCHANGED <<locals, Frame>>

_show_window_dimensions(r) ==
    /\ pc[r] = "w_dimensions"
    /\ LET a == [in_image |-> Val(locals[r].in_image), region |-> Window(r).region,
                 height |-> Window(r).height, width |-> Window(r).width,
                 length |-> Window(r).length, zoom |-> Window(r).zoom,
                 level |-> Window(r).level]
           res == Ok(get_window_output_dimensions(a))
       IN  /\ locals' = [locals EXCEPT ![r].req_size = res.value]
           /\ Step(r, "get_window_output_dimensions", a, res)
    /\ UNCHANGED Frame

_show_window_safeguard(r) ==
    /\ pc[r] = "w_safeguard"
    /\ LET a == [safe_mode |-> Window(r).headers.safe_mode,
                 limit |-> Window(r).config.output_size_limit,
                 width |-> Val(locals[r].req_size)[1],
                 height |-> Val(locals[r].req_size)[2]]
           res == Ok(safeguard_output_dimensions(a.safe_mode, a.limit, a.width, a.height))
       IN  /\ locals' = [locals EXCEPT ![r].out_size = res.value]
           /\ Step(r, "safeguard_output_dimensions", a, res)
    /\ UNCHANGED Frame

_show_window_response(r) ==
    /\ pc[r] = "w_response"
    /\ LET rs == Val(locals[r].req_size)
           os == Val(locals[r].out_size)
           a == [in_image |-> Val(locals[r].in_image), region |-> Window(r).region,
                 annots |-> Window(r).annots, annot_style |-> Window(r).annot_style,
                 out_width |-> os[1], out_height |-> os[2],
                 out_bitdepth |-> Window(r).bits, colorspace |-> Window(r).colorspace,
                 out_format |-> Val(locals[r].out_format)]
           resp == [kind |-> "WindowResponse", render |-> a,
                    mimetype |-> Val(locals[r].mimetype),
                    header_args |-> rs \o os,
                    extra_headers |->
                        add_image_size_limit_header(EmptyDict, rs[1], rs[2], os[1], os[2])]
       IN  /\ response' = [response EXCEPT ![r] = Some(resp)]
           /\ Step(r, "WindowResponse", a, Ok(resp))
    /\ UNCHANGED <<locals, req, SUPPORTED_MIMETYPES, mime_vars, lib_vars>>

\* --------------------------------------------------- mimetype_to_mpl_slug calls
\* A caller passes a mime type, then receives the slug or the exception.
mimetype_call ==
    /\ mime_pc = "idle"
    /\ \E m \in MimeInputs : mime_arg' = Some(m)
    /\ mime_pc' = "called"
    /\ UNCHANGED <<mime_ret, req_vars, SUPPORTED_MIMETYPES, lib_vars>>

mimetype_return ==
    /\ mime_pc = "called"
    /\ mime_ret' = Some(mimetype_to_mpl_slug(SUPPORTED_MIMETYPES, Val(mime_arg)))
    /\ mime_pc' = "returned"
    /\ UNCHANGED <<mime_arg, req_vars, SUPPORTED_MIMETYPES, lib_vars>>

\* ============================================================= specifications
Next ==
    \E r \in Reqs :
        \/ show_mask(r)
        \/ show_crop(r)
        \/ show_drawing(r)
        \/ get_spatial(r)
        \/ check_representation(r)
        \/ _show_mask_parse(r)
        \/ _show_mask_region(r)
        \/ _show_mask_format(r)
        \/ _show_mask_zoom(r)
        \/ _show_mask_level(r)
        \/ _show_mask_dimensions(r)
        \/ _show_mask_safeguard(r)
        \/ _show_mask_affine(r)
        \/ _show_mask_response(r)
        \/ _show_crop_parse(r)
        \/ _show_crop_region(r)
        \/ _show_crop_window(r)
        \/ _show_drawing_parse(r)
        \/ _show_drawing_region(r)
        \/ _show_drawing_window(r)
        \/ _show_window_format(r)
        \/ _show_window_zoom(r)
        \/ _show_window_level(r)
        \/ _show_window_dimensions(r)
        \/ _show_window_safeguard(r)
        \/ _show_window_response(r)

Spec == Init /\ [][Next]_vars

\* Calls of mimetype_to_mpl_slug alone, no request being served.
InitMime ==
    /\ pc = [r \in Reqs |-> "off"]
    /\ req = [r \in Reqs |-> NoReq]
    /\ locals = [r \in Reqs |-> NoLocals]
    /\ calls = [r \in Reqs |-> <<>>]
    /\ response = [r \in Reqs |-> None]
    /\ raised = [r \in Reqs |-> None]
    /\ SUPPORTED_MIMETYPES = SupportedAtImport
    /\ mime_pc = "idle"
    /\ mime_arg = None
    /\ mime_ret = None
    /\ LibOff

NextMime == mimetype_call \/ mimetype_return

SpecMime == InitMime /\ [][NextMime]_vars

\* ------------------------------------------------------------------- Archive
\* Archive(path, format=format) called on a file starting with `file`.
Archive_new ==
    /\ archive.pc = "idle"
    /\ \E file \in Signatures, format \in FormatArgs :
          archive' = [pc |-> "init", via |-> "Archive", format |-> format,
                      file |-> file, signature |-> None, i |-> 1,
                      tried |-> <<>>, _format |-> None, raised |-> None,
                      caught |-> None, result |-> None]
    /\ UNCHANGED <<req_vars, SUPPORTED_MIMETYPES, mime_vars, ARCHIVE_FORMATS,
                   bp_parser, color_call>>

\* Archive.from_path(path): cls(path), no format given.
Archive_from_path ==
    /\ archive.pc = "idle"
    /\ \E file \in Signatures :
          archive' = [pc |-> "init", via |-> "from_path", format |-> None,
                      file |-> file, signature |-> None, i |-> 1,
                      tried |-> <<>>, _format |-> None, raised |-> None,
                      caught |-> None, result |-> None]
    /\ UNCHANGED <<req_vars, SUPPORTED_MIMETYPES, mime_vars, ARCHIVE_FORMATS,
                   bp_parser, color_call>>

\* _format = None; if format: _format = format; else: signature = self.signature()
Archive__init__format ==
    /\ archive.pc = "init"
    /\ archive' =
          IF ~IsNone(archive.format)
          THEN [archive EXCEPT !._format = archive.format, !.pc = "check"]
          ELSE [archive EXCEPT !.signature = Some(archive.file),
                               !.pc = IF Len(ARCHIVE_FORMATS) = 0 THEN "check"
                                      ELSE "loop"]
    /\ UNCHANGED <<req_vars, SUPPORTED_MIMETYPES, mime_vars, ARCHIVE_FORMATS,
                   bp_parser, color_call>>

\* One iteration of: for possible_format in ARCHIVE_FORMATS
Archive__init__loop ==
    /\ archive.pc = "loop"
    /\ LET possible_format == ARCHIVE_FORMATS[archive.i]
           matched == Match(possible_format, Val(archive.signature))
       IN  archive' =
              [archive EXCEPT
                 !.tried = Append(@, possible_format.name),
                 !._format = IF matched THEN Some(possible_format) ELSE @,
                 !.i = @ + 1,
                 !.pc = IF LoopExit(matched, archive.i, Len(ARCHIVE_FORMATS))
                        THEN "check" ELSE "loop"]
    /\ UNCHANGED <<req_vars, SUPPORTED_MIMETYPES, mime_vars, ARCHIVE_FORMATS,
                   bp_parser, color_call>>

\* if _format is None: raise NoMatchingFormatProblem(self)
\* else: self._format = _format
Archive__init__check ==
    /\ archive.pc = "check"
    /\ archive' =
          IF IsNone(archive._format)
          THEN [archive EXCEPT !.raised = Some(NoMatchingFormatProblem),
                               !.pc = IF archive.via = "from_path" THEN "except"
                                      ELSE "raised"]
          ELSE [archive EXCEPT !.result = Some([_format |-> Val(archive._format)]),
                               !.pc = "returned"]
    /\ UNCHANGED <<req_vars, SUPPORTED_MIMETYPES, mime_vars, ARCHIVE_FORMATS,
                   bp_parser, color_call>>

\* except NoMatchingFormatProblem: return None
Archive_from_path_except ==
    /\ archive.pc = "except"
    /\ archive' = [archive EXCEPT !.caught = archive.raised, !.raised = None,
                                  !.result = None, !.pc = "returned"]
    /\ UNCHANGED <<req_vars, SUPPORTED_MIMETYPES, mime_vars, ARCHIVE_FORMATS,
                   bp_parser, color_call>>

\* The module imported under every set of formats shutil can list.
InitArchive ==
    /\ pc = [r \in Reqs |-> "off"]
    /\ req = [r \in Reqs |-> NoReq]
    /\ locals = [r \in Reqs |-> NoLocals]
    /\ calls = [r \in Reqs |-> <<>>]
    /\ response = [r \in Reqs |-> None]
    /\ raised = [r \in Reqs |-> None]
    /\ SUPPORTED_MIMETYPES = SupportedAtImport
    /\ mime_pc = "off"
    /\ mime_arg = None
    /\ mime_ret = None
    /\ \E optional \in SUBSET OptionalShutilFormats :
          ARCHIVE_FORMATS =
              _build_archive_format_list(
                  SelectSeq2(ShutilFormats, {"tar", "zip"} \cup optional))
    /\ archive = [pc |-> "idle"]
    /\ bp_parser = Off
    /\ color_call = Off

NextArchive ==
    \/ Archive_new
    \/ Archive_from_path
    \/ Archive__init__format
    \/ Archive__init__loop
    \/ Archive__init__check
    \/ Archive_from_path_except

SpecArchive == InitArchive /\ [][NextArchive]_vars

\* ---------------------------------------------------------- BPMetadataParser
\* Metadata the parser is built on.
Slide(identifier) ==
    Model("Slide", << <<"reference", Reference(identifier)>>,
                      <<"identifier", Prim(PyStr(identifier))>>,
                      <<"stainings", ListOf(<<>>)>> >>)
ImageOf(identifier, slide) ==
    Model("Image", << <<"reference", Reference(identifier)>>,
                      <<"slide", slide>> >>)
Observation(identifier, slide) ==
    Model("Observation", << <<"reference", Reference(identifier)>>,
                            <<"slides", ListOf(<<Slide(slide)>>)>>,
                            <<"statement", Prim(PyStr("tumor"))>> >>)
Images1 ==
    <<"images", ListOf(<<ImageOf("IMAGE_1", Reference("SLIDE_1")),
                         ImageOf("IMAGE_2", Reference("SLIDE_2"))>>)>>
Observations1 ==
    <<"observations", ListOf(<<Observation("OBSERVATION_0000000001", "SLIDE_1"),
                               Observation("OBSERVATION_0000000002", "SLIDE_2")>>)>>
Dataset1 ==
    Model("Dataset", << <<"reference", Reference("DATASET_1")>>,
                        <<"version", Prim(PyInt0)>>,
                        Images1, Observations1,
                        <<"attributes", AttributesOf(<<>>)>> >>)
\* the same dataset with its observations listed before its images
Dataset1Reversed ==
    Model("Dataset", << <<"reference", Reference("DATASET_1")>>,
                        Observations1, Images1 >>)
\* a second dataset naming IMAGE_1 again, without the identifier of its slide
Dataset2 ==
    Model("Dataset", << <<"reference", Reference("DATASET_2")>>,
                        <<"images",
                          ListOf(<<ImageOf("IMAGE_1",
                                           Model("Reference",
                                                 << <<"identifier", Prim(PyNone)>> >>))>>)>> >>)
Study1 ==
    Model("Study", << <<"reference", Reference("STUDY_1")>>,
                      <<"description", Prim(PyNone)>>,
                      <<"type", EnumOf(PyStr("cohort"))>>,
                      <<"keywords", ListOf(<<>>)>>,
                      <<"contacts", ListOf(<<Prim(PyStr("a")), Prim(PyStr("b"))>>)>>,
                      <<"links", DictOf(<< <<"doi", Prim(PyStr(""))>> >>)>> >>)
Being1 ==
    Model("BiologicalBeing",
          << <<"reference", Reference("BIOLOGICAL_BEING_000000001")>>,
             <<"species", EnumOf(PyStr("human"))>>,
             <<"specimens",
               ListOf(<<Model("Specimen",
                              << <<"reference", Reference("SPECIMEN_1")>>,
                                 <<"slides", ListOf(<<Slide("SLIDE_1")>>)>> >>)>>)>> >>)
Being2 ==
    Model("BiologicalBeing",
          << <<"reference", Reference("BIOLOGICAL_BEING_000000002")>>,
             <<"slides", ListOf(<<Slide("SLIDE_2")>>)>> >>)
Metadatas ==
    { [datasets |-> <<Dataset1>>, studies |-> <<Study1>>, beings |-> <<Being1, Being2>>],
      [datasets |-> <<Dataset1Reversed>>, studies |-> <<Study1>>, beings |-> <<Being1>>],
      [datasets |-> <<Dataset1, Dataset2>>, studies |-> <<>>, beings |-> <<Being1>>],
      [datasets |-> <<>>, studies |-> <<Study1>>, beings |-> <<Being2>>],
      [datasets |-> <<>>, studies |-> <<Study1>>, beings |-> <<>>],
      [datasets |-> <<>>, studies |-> <<>>, beings |-> <<>>] }

\* The filters given to parse: none, an empty dictionary, an image, an image
\* absent from the metadata, an image with its slide.
FilterArgs ==
    { None, Some(EmptyDict),
      Some([k \in {"image"} |-> PyStr("IMAGE_1")]),
      Some([k \in {"image"} |-> PyStr("IMAGE_2")]),
      Some([k \in {"image"} |-> PyStr("IMAGE_9")]),
      Some([k \in {"image", "slide"} |->
               IF k = "image" THEN PyStr("IMAGE_1") ELSE PyStr("SLIDE_1")]) }

ParserFrame ==
    <<req_vars, SUPPORTED_MIMETYPES, mime_vars, ARCHIVE_FORMATS, archive, color_call>>

\* BPMetadataParser(studies, beings, datasets)
BPMetadataParser__init__ ==
    /\ bp_parser.pc = "idle"
    /\ \E m \in Metadatas :
          bp_parser' =
              [pc |-> "constructed",
               studies |-> m.studies, beings |-> m.beings, datasets |-> m.datasets,
               filters |-> [k \in {"image", "slide", "obs", "being"} |-> PyNone],
               parsed |-> EmptyDict,
               i |-> 1, todo |-> <<>>,
               recorded |-> {}, order |-> <<>>, assigned |-> <<>>,
               result |-> None, raised |-> None]
    /\ UNCHANGED ParserFrame

\* The three loops of parse, and for each the <<list, successor>> it goes
\* over and on to.
ParseLoopNames == {"datasets", "studies", "beings"}
ParseLoops(self) ==
    [datasets |-> <<self.datasets, "studies">>,
     studies |-> <<self.studies, "beings">>,
     beings |-> <<self.beings, "remove_empty">>]

\* The statement reached from `at`, item i of its list: loops over nothing
\* are stepped over.
RECURSIVE Reach(_, _, _)
Reach(self, at, i) ==
    IF at \notin ParseLoopNames THEN [pc |-> at, i |-> 1]
    ELSE IF i <= Len(ParseLoops(self)[at][1]) THEN [pc |-> at, i |-> i]
    ELSE Reach(self, ParseLoops(self)[at][2], 1)

\* parse(filters): if filters: self.filters.update(filters)
parse ==
    /\ bp_parser.pc = "constructed"
    /\ \E filters \in FilterArgs :
          LET given == ~IsNone(filters) /\ DOMAIN Val(filters) # {}
              slide_given == given /\ "slide" \in DOMAIN Val(filters)
              to == Reach(bp_parser, "datasets", 1)
          IN  bp_parser' =
                  [bp_parser EXCEPT
                     !.filters = IF given THEN update(@, Val(filters)) ELSE @,
                     !.assigned = IF slide_given THEN <<"slide">> ELSE <<>>,
                     !.pc = to.pc, !.i = to.i]
    /\ UNCHANGED ParserFrame

\* self.parser.get("any")(x, x.reference.identifier) for item i of the
\* list being looped over: the object is flattened ...
parse_item ==
    /\ bp_parser.pc \in ParseLoopNames
    /\ bp_parser.todo = <<>>
    /\ LET x == ParseLoops(bp_parser)[bp_parser.pc][1][bp_parser.i]
           todo == _parse_any(x, ReferenceIdentifier(x))
           to == Reach(bp_parser, bp_parser.pc, bp_parser.i + 1)
       IN  bp_parser' =
               IF todo = <<>>
               THEN [bp_parser EXCEPT !.pc = to.pc, !.i = to.i]
               ELSE [bp_parser EXCEPT !.todo = todo]
    /\ UNCHANGED ParserFrame

\* ... and each primitive met is given to _parse_primitive.
parse_primitive ==
    /\ bp_parser.pc \in ParseLoopNames
    /\ bp_parser.todo # <<>>
    /\ LET call == Head(bp_parser.todo)
           self == _parse_primitive(bp_parser, call.primitive, call.prefix)
           to == IF Tail(bp_parser.todo) = <<>>
                 THEN Reach(bp_parser, bp_parser.pc, bp_parser.i + 1)
                 ELSE [pc |-> bp_parser.pc, i |-> bp_parser.i]
       IN  bp_parser' =
               [self EXCEPT
                  !.todo = Tail(@),
                  !.order = Append(@, [from |-> bp_parser.pc, prefix |-> call.prefix,
                                       primitive |-> call.primitive]),
                  !.pc = to.pc, !.i = to.i]
    /\ UNCHANGED ParserFrame

\* self._remove_empty_variables()
parse_remove_empty ==
    /\ bp_parser.pc = "remove_empty"
    /\ bp_parser' = [bp_parser EXCEPT !.parsed = _remove_empty_variables(@),
                                      !.pc = "filter"]
    /\ UNCHANGED ParserFrame

\* return self._filter()
parse_return ==
    /\ bp_parser.pc = "filter"
    /\ LET res == _filter(bp_parser.parsed, bp_parser.filters)
       IN  bp_parser' = [bp_parser EXCEPT
                           !.result = res.value, !.raised = res.raised,
                           !.pc = IF IsNone(res.raised) THEN "returned" ELSE "raised"]
    /\ UNCHANGED ParserFrame

InitMeta ==
    /\ pc = [r \in Reqs |-> "off"]
    /\ req = [r \in Reqs |-> NoReq]
    /\ locals = [r \in Reqs |-> NoLocals]
    /\ calls = [r \in Reqs |-> <<>>]
    /\ response = [r \in Reqs |-> None]
    /\ raised = [r \in Reqs |-> None]
    /\ SUPPORTED_MIMETYPES = SupportedAtImport
    /\ mime_pc = "off"
    /\ mime_arg = None
    /\ mime_ret = None
    /\ ARCHIVE_FORMATS = _build_archive_format_list(ShutilFormats)
    /\ archive = Off
    /\ bp_parser = [pc |-> "idle"]
    /\ color_call = Off

NextMeta ==
    \/ BPMetadataParser__init__
    \/ parse
    \/ parse_item
    \/ parse_primitive
    \/ parse_remove_empty
    \/ parse_return

SpecMeta == InitMeta /\ [][NextMeta]_vars

\* --------------------------------------------------------------------- Color
\* The bytes the channels of the integers are made of
ByteInputs == {0, 1, 127, 128, 254, 255}
IntInputs ==
    {Int32(r * 256 + g, b * 256 + a) :
        r \in ByteInputs, g \in ByteInputs, b \in ByteInputs, a \in ByteInputs}
AlphaArgs == {None, Some(TRUE), Some(FALSE)}
ColorFrame ==
    <<req_vars, SUPPORTED_MIMETYPES, mime_vars, ARCHIVE_FORMATS, archive, bp_parser>>

\* Color(value) with an int: self._rgba = parse_int(value); self._original = value
Color__init__ ==
    /\ color_call.pc = "idle"
    /\ \E value \in IntInputs :
          color_call' = [pc |-> "constructed", _original |-> value,
                         _rgba |-> parse_int(value),
                         alpha |-> None, result |-> None, raised |-> None]
    /\ UNCHANGED ColorFrame

\* color.as_int(alpha)
Color_as_int ==
    /\ color_call.pc = "constructed"
    /\ \E alpha \in AlphaArgs :
          LET res == as_int(color_call._rgba, alpha)
          IN  color_call' = [color_call EXCEPT
                               !.alpha = alpha, !.result = res.value,
                               !.raised = res.raised,
                               !.pc = IF IsNone(res.raised) THEN "returned"
                                      ELSE "raised"]
    /\ UNCHANGED ColorFrame

InitColor ==
    /\ pc = [r \in Reqs |-> "off"]
    /\ req = [r \in Reqs |-> NoReq]
    /\ locals = [r \in Reqs |-> NoLocals]
    /\ calls = [r \in Reqs |-> <<>>]
    /\ response = [r \in Reqs |-> None]
    /\ raised = [r \in Reqs |-> None]
    /\ SUPPORTED_MIMETYPES = SupportedAtImport
    /\ mime_pc = "off"
    /\ mime_arg = None
    /\ mime_ret = None
    /\ ARCHIVE_FORMATS = _build_archive_format_list(ShutilFormats)
    /\ archive = Off
    /\ bp_parser = Off
    /\ color_call = [pc |-> "idle"]

NextColor ==
    \/ Color__init__
    \/ Color_as_int

SpecColor == InitColor /\ [][NextColor]_vars

\* ------------------------------------------------------- concurrent requests
\* show_mask, show_crop or show_drawing receiving one of ConcRequests.
show_concurrent(r) ==
    /\ pc[r] = "idle"
    /\ \E q \in ConcRequests : req' = [req EXCEPT ![r] = q]
    /\ pc' = [pc EXCEPT ![r] = "get_spatial"]
    /\ UNCHANGED <<locals, calls, response, raised, SUPPORTED_MIMETYPES, mime_vars, lib_vars>>

\* Two requests served at the same time by two worker threads, their
\* statements interleaved in any order.
InitConc ==
    /\ pc = [r \in Reqs |-> "idle"]
    /\ req = [r \in Reqs |-> NoReq]
    /\ locals = [r \in Reqs |-> NoLocals]
    /\ calls = [r \in Reqs |-> <<>>]
    /\ response = [r \in Reqs |-> None]
    /\ raised = [r \in Reqs |-> None]
    /\ SUPPORTED_MIMETYPES = SupportedAtImport
    /\ mime_pc = "off"
    /\ mime_arg = None
    /\ mime_ret = None
    /\ LibOff

NextConc ==
    \E r \in Reqs :
        \/ show_concurrent(r)
        \/ get_spatial(r)
        \/ check_representation(r)
        \/ _show_mask_parse(r)
        \/ _show_mask_region(r)
        \/ _show_mask_format(r)
        \/ _show_mask_zoom(r)
        \/ _show_mask_level(r)
        \/ _show_mask_dimensions(r)
        \/ _show_mask_safeguard(r)
        \/ _show_mask_affine(r)
        \/ _show_mask_response(r)
        \/ _show_crop_parse(r)
        \/ _show_crop_region(r)
        \/ _show_crop_window(r)
        \/ _show_drawing_parse(r)
        \/ _show_drawing_region(r)
        \/ _show_drawing_window(r)
        \/ _show_window_format(r)
        \/ _show_window_zoom(r)
        \/ _show_window_level(r)
        \/ _show_window_dimensions(r)
        \/ _show_window_safeguard(r)
        \/ _show_window_response(r)

SpecConc == InitConc /\ [][NextConc]_vars

\* ===================================================================== claims
Log(r) == calls[r]
\* The positions of the calls of fn in the log of request r
CallsOf(r, fn) == {i \in DOMAIN calls[r] : calls[r][i].fn = fn}
Raw(r) == ensure_list(req[r].body.annotations)

\* C1: in the mask pipeline the width and height given to the affine
\* transform builder and to the mask renderer are the effective size the
\* output safeguard returned, not the requested size of the scale resolver.
C1_MaskUsesEffectiveSize ==
    \A r \in Reqs : req[r].mode = "mask" =>
        \A i \in CallsOf(r, "annotation_crop_affine_matrix") \cup CallsOf(r, "MaskResponse") :
            \E j \in CallsOf(r, "safeguard_output_dimensions") :
                /\ j < i
                /\ <<Log(r)[i].args.out_width, Log(r)[i].args.out_height>>
                       = Val(Log(r)[j].ret.value)

\* A mask request answered after the safeguard clamped the requested size.
C1_Witness ==
    \E r \in Reqs :
        /\ req[r].mode = "mask" /\ pc[r] = "done"
        /\ locals[r].req_size # locals[r].out_size
        /\ CallsOf(r, "annotation_crop_affine_matrix") # {}

\* The calls a request makes, in order, when no stage fails.
FullCalls(mode) ==
    IF mode = "mask"
    THEN <<"get_spatial", "check_representation_existence", "parse_annotations",
           "get_annotation_region", "get_output_format", "check_zoom_validity",
           "check_level_validity", "get_window_output_dimensions",
           "safeguard_output_dimensions", "annotation_crop_affine_matrix",
           "MaskResponse">>
    ELSE <<"get_spatial", "check_representation_existence", "parse_annotations",
           "get_annotation_region", "_show_window", "get_output_format",
           "check_zoom_validity", "check_level_validity",
           "get_window_output_dimensions", "safeguard_output_dimensions",
           "WindowResponse">>

\* C2: in every mode a failing stage ends the request: the failing call is
\* the last call made (no later stage runs), no call is made twice (no
\* retry), no response exists; and a response exists only when every stage
\* was called in order and returned normally.
C2_FailureIsTerminal ==
    \A r \in Reqs :
        /\ \A i \in DOMAIN Log(r) :
               ~IsNone(Log(r)[i].ret.raised) =>
                   /\ i = Len(Log(r))
                   /\ pc[r] = "failed"
                   /\ raised[r] = Log(r)[i].ret.raised
                   /\ IsNone(response[r])
        /\ \A i, j \in DOMAIN Log(r) : i # j => Log(r)[i].fn # Log(r)[j].fn
        /\ (pc[r] = "failed") = (~IsNone(raised[r]))
        /\ ~IsNone(response[r]) =>
               /\ pc[r] = "done"
               /\ [i \in DOMAIN Log(r) |-> Log(r)[i].fn] = FullCalls(req[r].mode)
               /\ \A i \in DOMAIN Log(r) : IsNone(Log(r)[i].ret.raised)

\* A drawing request that failed at zoom validation, inside the window
\* pipeline.
C2_Witness ==
    \E r \in Reqs :
        /\ req[r].mode = "drawing" /\ pc[r] = "failed"
        /\ raised[r] = Some(InvalidZoomError)
        /\ Log(r)[Len(Log(r))].fn = "check_zoom_validity"

\* C3: in mask mode every parsed annotation has no stroke_width and no
\* stroke_color, whatever the payload held, and its fill_color is the
\* payload's when it has one and white otherwise.
C3_MaskStyle ==
    \A r \in Reqs : (req[r].mode = "mask" /\ ~IsNone(locals[r].annots)) =>
        LET items == Val(locals[r].annots).items
        IN  /\ DOMAIN items = DOMAIN Raw(r)
            /\ \A i \in DOMAIN items :
                   /\ IsNone(items[i].stroke_width)
                   /\ IsNone(items[i].stroke_color)
                   /\ items[i].fill_color =
                          IF IsNone(Raw(r)[i].fill_color) THEN Some(WHITE)
                          ELSE Raw(r)[i].fill_color

\* A parsed mask request with a payload that has stroke fields and a fill
\* colour and a payload that has no fill colour.
C3_Witness ==
    \E r \in Reqs :
        /\ req[r].mode = "mask" /\ ~IsNone(locals[r].annots)
        /\ \E i \in DOMAIN Raw(r) :
               ~IsNone(Raw(r)[i].stroke_color) /\ ~IsNone(Raw(r)[i].stroke_width)
               /\ ~IsNone(Raw(r)[i].fill_color)
        /\ \E i \in DOMAIN Raw(r) : IsNone(Raw(r)[i].fill_color)

\* A payload without its style fields
NoStyle(item) ==
    [item EXCEPT !.fill_color = None, !.stroke_color = None, !.stroke_width = None]

\* C4: in crop mode the annotation data handed to the window pipeline does
\* not depend on the fill_color, stroke_color or stroke_width of the
\* payloads: it is what the same request without style fields hands over.
C4_CropIgnoresStyle ==
    \A r \in Reqs : req[r].mode = "crop" =>
        \A i \in CallsOf(r, "_show_window") :
            LET a == _show_crop_parse_args(r)
                bare == [k \in DOMAIN a.raw_items |-> NoStyle(a.raw_items[k])]
            IN  Some(Log(r)[i].args.annots)
                    = parse_annotations([a EXCEPT !.raw_items = bare]).value

\* C5: in drawing mode every parsed annotation keeps the payload's stroke
\* colour, its stroke width (1 when the payload has none) and, when the
\* payload has a fill colour, that fill colour.
C5_DrawingStyle ==
    \A r \in Reqs : (req[r].mode = "drawing" /\ ~IsNone(locals[r].annots)) =>
        LET items == Val(locals[r].annots).items
        IN  \A i \in DOMAIN items :
                /\ items[i].stroke_color = Raw(r)[i].stroke_color
                /\ items[i].stroke_width =
                       IF IsNone(Raw(r)[i].stroke_width) THEN Some(1)
                       ELSE Raw(r)[i].stroke_width
                /\ ~IsNone(Raw(r)[i].fill_color) =>
                       items[i].fill_color = Raw(r)[i].fill_color

\* C6 as claimed: for crop and for drawing requests the bits and colorspace
\* of the request are those passed to the window pipeline.
C6_RequestBitsPassed ==
    \A r \in Reqs : req[r].mode \in {"crop", "drawing"} =>
        \A i \in CallsOf(r, "_show_window") :
            /\ Some(Log(r)[i].args.bits) = req[r].json.bits
            /\ Some(Log(r)[i].args.colorspace) = req[r].json.colorspace

\* C6 as amended: a crop request's bits and colorspace are passed to the
\* window pipeline; a drawing request always passes bits 8 and colorspace
\* AUTO, whatever the request held.
C6_CropBitsPassedDrawingFixed ==
    \A r \in Reqs :
        \A i \in CallsOf(r, "_show_window") :
            /\ req[r].mode = "crop" =>
                   /\ Some(Log(r)[i].args.bits) = req[r].json.bits
                   /\ Some(Log(r)[i].args.colorspace) = req[r].json.colorspace
            /\ req[r].mode = "drawing" =>
                   /\ Log(r)[i].args.bits = 8
                   /\ Log(r)[i].args.colorspace = "AUTO"

\* A drawing request sent with bits 16 and colorspace GRAY that reached the
\* window pipeline.
C6_Witness ==
    \E r \in Reqs :
        /\ req[r].mode = "drawing"
        /\ req[r].json = [bits |-> Some(16), colorspace |-> Some("GRAY")]
        /\ CallsOf(r, "_show_window") # {}

ZoomOk(r) ==
    IsNone(req[r].body.zoom)
    \/ (0 <= Val(req[r].body.zoom) /\ Val(req[r].body.zoom) <= Image.pyramid.max_zoom)
LevelOk(r) ==
    IsNone(req[r].body.level)
    \/ (0 <= Val(req[r].body.level) /\ Val(req[r].body.level) <= Image.pyramid.max_level)

\* C7: in the mask pipeline size resolution, the safeguard and the affine
\* builder run only after the zoom check and then the level check both
\* passed; an invalid zoom fails the request with the zoom error also when
\* the level is invalid too.
C7_ZoomThenLevelBeforeSize ==
    \A r \in Reqs : req[r].mode = "mask" =>
        /\ \A i \in CallsOf(r, "get_window_output_dimensions")
                    \cup CallsOf(r, "safeguard_output_dimensions")
                    \cup CallsOf(r, "annotation_crop_affine_matrix") :
               /\ ZoomOk(r) /\ LevelOk(r)
               /\ \E j \in CallsOf(r, "check_zoom_validity") :
                      \E k \in CallsOf(r, "check_level_validity") : j < k /\ k < i
        /\ \A k \in CallsOf(r, "check_level_validity") :
               \E j \in CallsOf(r, "check_zoom_validity") : j < k
        /\ raised[r] = Some(InvalidLevelError) => ZoomOk(r)
        /\ (CallsOf(r, "check_zoom_validity") # {} /\ ~ZoomOk(r)) =>
               raised[r] = Some(InvalidZoomError)

\* A mask request whose zoom and level are both out of range, failed with
\* the zoom error.
C7_Witness ==
    \E r \in Reqs :
        /\ req[r].mode = "mask" /\ ~ZoomOk(r) /\ ~LevelOk(r)
        /\ pc[r] = "failed" /\ raised[r] = Some(InvalidZoomError)

\* C8: mask and crop parse without point_envelope_length and resolve the
\* region from the annotations and context_factor alone, never squared;
\* drawing gives the request's point_envelope_length to the parser and the
\* request's try_square to the region resolver.
C8_SquareAndEnvelopeDrawingOnly ==
    \A r \in Reqs :
        /\ \A i \in CallsOf(r, "parse_annotations") :
               Log(r)[i].args.point_envelope_length =
                   IF req[r].mode = "drawing" THEN req[r].body.point_envelope_length
                   ELSE None
        /\ \A i \in CallsOf(r, "get_annotation_region") :
               IF req[r].mode = "drawing"
               THEN Log(r)[i].args.try_square = req[r].body.try_square
               ELSE /\ Log(r)[i].args.try_square = FALSE
                    /\ Log(r)[i].ret.value =
                           Some(Clip(Expand(Val(locals[r].annots).region,
                                            req[r].body.context_factor), Image))

\* A drawing request with try_square and a point envelope whose region was
\* resolved.
C8_Witness ==
    \E r \in Reqs :
        /\ req[r].mode = "drawing" /\ req[r].body.try_square
        /\ ~IsNone(req[r].body.point_envelope_length)
        /\ ~IsNone(locals[r].region)

\* C9: the extra headers of the mask response are built from the requested
\* size (the scale resolver's result) followed by the effective size (the
\* safeguard's result), and so report both when they differ.
C9_MaskHeadersRequestedThenEffective ==
    \A r \in Reqs : (req[r].mode = "mask" /\ ~IsNone(response[r])) =>
        \E i \in CallsOf(r, "get_window_output_dimensions") :
            \E j \in CallsOf(r, "safeguard_output_dimensions") :
                LET requested == Val(Log(r)[i].ret.value)
                    effective == Val(Log(r)[j].ret.value)
                    hdr == Val(response[r]).extra_headers
                IN  /\ Val(response[r]).header_args = requested \o effective
                    /\ requested # effective =>
                           /\ "X-Image-Size-Limit" \in DOMAIN hdr
                           /\ hdr["X-Image-Size-Limit"].requested = requested
                           /\ hdr["X-Image-Size-Limit"].effective = effective

\* A mask response whose headers report a clamped size.
C9_Witness ==
    \E r \in Reqs :
        /\ req[r].mode = "mask" /\ ~IsNone(response[r])
        /\ "X-Image-Size-Limit" \in DOMAIN Val(response[r]).extra_headers

SupportedSlugs ==
    [k \in {s_image \o s_slash \o s_png, s_image \o s_slash \o s_jpg,
            s_image \o s_slash \o s_jpeg, s_image \o s_slash \o s_webp} |->
        IF k = s_image \o s_slash \o s_png THEN s_png
        ELSE IF k = s_image \o s_slash \o s_webp THEN s_webp
        ELSE s_jpeg]

\* C10: mimetype_to_mpl_slug raises the unsupported-media-type error for
\* every mime type outside {image/png, image/jpg, image/jpeg, image/webp}
\* and returns png, jpeg, jpeg, webp for these four.
C10_MimetypeSlug ==
    mime_pc = "returned" =>
        LET m == Val(mime_arg)
            res == Val(mime_ret)
        IN  IF m \in DOMAIN SupportedSlugs
            THEN res = [raised |-> None, value |-> Some(SupportedSlugs[m])]
            ELSE res = [raised |-> Some(UnsupportedMediaTypeProblem), value |-> None]

\* image/jpg was passed and the slug jpeg came back.
C10_Witness ==
    /\ mime_pc = "returned"
    /\ mime_arg = Some(s_image \o s_slash \o s_jpg)
    /\ mime_ret = Some([raised |-> None, value |-> Some(s_jpeg)])

\* The value the call of fn by request r returned (fn is called once).
RetOf(r, fn) == Val(Log(r)[CHOOSE i \in CallsOf(r, fn) : TRUE].ret.value)
Called(r, fn) == CallsOf(r, fn) # {}
ScaleOf(x) ==
    [height |-> x.height, width |-> x.width, length |-> x.length,
     zoom |-> x.zoom, level |-> x.level]

\* C11: with two requests interleaved, every call a request makes is given
\* that request's own fields and the results of its own earlier calls, the
\* image is the same read-only image, its local variables hold its own
\* results, and SUPPORTED_MIMETYPES stays as built at import.
C11_RequestsIsolated ==
    /\ SUPPORTED_MIMETYPES = SupportedAtImport
    /\ \A r \in Reqs :
        /\ pc[r] = "idle" => (locals[r] = NoLocals /\ Log(r) = <<>>)
        /\ \A i \in DOMAIN Log(r) :
            LET e == Log(r)[i]
            IN  /\ e.fn = "get_spatial" =>
                       /\ e.ret.value \in {None, Some(Image)}
                       /\ locals[r].in_image = e.ret.value
                /\ e.fn = "parse_annotations" =>
                       /\ e.args.raw_items = Raw(r)
                       /\ e.args.origin = req[r].headers.annot_origin
                       /\ e.args.im_height = RetOf(r, "get_spatial").height
                       /\ locals[r].annots = e.ret.value
                /\ e.fn = "get_annotation_region" =>
                       /\ Called(r, "parse_annotations")
                       /\ e.args.annots = RetOf(r, "parse_annotations")
                       /\ e.args.context_factor = req[r].body.context_factor
                       /\ locals[r].region = e.ret.value
                /\ e.fn = "get_output_format" =>
                       /\ e.args.extension = req[r].extension
                       /\ e.args.accept = req[r].headers.accept
                       /\ e.ret = get_output_format(req[r].extension,
                                                    req[r].headers.accept,
                                                    SupportedAtImport)
                /\ e.fn = "get_window_output_dimensions" =>
                       /\ Called(r, "get_annotation_region")
                       /\ e.args.region = RetOf(r, "get_annotation_region")
                       /\ ScaleOf(e.args) = ScaleOf(req[r].body)
                       /\ locals[r].req_size = e.ret.value
                /\ e.fn = "safeguard_output_dimensions" =>
                       /\ Called(r, "get_window_output_dimensions")
                       /\ <<e.args.width, e.args.height>>
                              = RetOf(r, "get_window_output_dimensions")
                       /\ e.args.safe_mode = req[r].headers.safe_mode
                       /\ locals[r].out_size = e.ret.value
                /\ e.fn = "annotation_crop_affine_matrix" =>
                       /\ Called(r, "safeguard_output_dimensions")
                       /\ e.args.annot_region = RetOf(r, "parse_annotations").region
                       /\ e.args.in_region = RetOf(r, "get_annotation_region")
                       /\ <<e.args.out_width, e.args.out_height>>
                              = RetOf(r, "safeguard_output_dimensions")
                       /\ locals[r].affine = e.ret.value
                /\ e.fn = "_show_window" =>
                       /\ e.args.region = RetOf(r, "get_annotation_region")
                       /\ e.args.annots = RetOf(r, "parse_annotations")
                       /\ e.args.headers = req[r].headers
                       /\ e.args.extension = req[r].extension
                       /\ ScaleOf(e.args) = ScaleOf(req[r].body)
                       /\ locals[r].window = Some(e.args)
                /\ e.fn \in {"MaskResponse", "WindowResponse"} =>
                       /\ Called(r, "safeguard_output_dimensions")
                       /\ e.args.annots = RetOf(r, "parse_annotations")
                       /\ <<e.args.out_width, e.args.out_height>>
                              = RetOf(r, "safeguard_output_dimensions")
                       /\ response[r] = e.ret.value

\* Request 1, a mask request, was answered while request 2, still being
\* served, already held a different effective size.
C11_Witness ==
    /\ req[1].mode = "mask" /\ pc[1] = "done"
    /\ pc[2] \notin {"idle", "done", "failed"}
    /\ ~IsNone(locals[2].out_size)
    /\ locals[2].out_size # locals[1].out_size

\* The entries of ARCHIVE_FORMATS whose matcher accepts the file's signature
Accepting == {i \in DOMAIN ARCHIVE_FORMATS : Match(ARCHIVE_FORMATS[i], archive.file)}
ArchiveEnded == archive.pc \in {"returned", "raised"}

\* C12: a format passed explicitly is the archive's format and the signature
\* is neither read nor matched; otherwise the format is the first entry of
\* ARCHIVE_FORMATS whose matcher accepts the signature; when none accepts,
\* Archive(...) raises NoMatchingFormatProblem and Archive.from_path returns
\* None without raising; a constructed Archive has a format.
C12_FormatResolution ==
    ArchiveEnded =>
        /\ ~IsNone(archive.format) =>
              /\ archive.pc = "returned"
              /\ Archive_format(Val(archive.result)) = Val(archive.format)
              /\ IsNone(archive.signature) /\ archive.tried = <<>>
        /\ (IsNone(archive.format) /\ Accepting # {}) =>
              /\ archive.pc = "returned"
              /\ \E i \in Accepting :
                    /\ \A j \in Accepting : i <= j
                    /\ Archive_format(Val(archive.result)) = ARCHIVE_FORMATS[i]
        /\ (IsNone(archive.format) /\ Accepting = {}) =>
              IF archive.via = "from_path"
              THEN /\ archive.pc = "returned" /\ IsNone(archive.result)
                   /\ IsNone(archive.raised)
                   /\ archive.caught = Some(NoMatchingFormatProblem)
              ELSE /\ archive.pc = "raised"
                   /\ archive.raised = Some(NoMatchingFormatProblem)
                   /\ IsNone(archive.result)
        /\ (archive.pc = "returned" /\ IsNone(archive.caught)) =>
              /\ ~IsNone(archive.result) /\ ~IsNone(archive._format)
              /\ Archive_format(Val(archive.result)) = Val(archive._format)

\* A file that both the tar and the zip matcher accept was resolved, with no
\* format given, to tar, the earlier entry of the list.
C12_Witness ==
    /\ archive.pc = "returned" /\ IsNone(archive.format)
    /\ ~IsNone(archive.result)
    /\ \E i, j \in Accepting : i < j
    /\ Archive_format(Val(archive.result)).name = "tar"

\* The value last recorded under key k, and the keys recorded
LastOf(k) ==
    LET at == {i \in DOMAIN bp_parser.order : bp_parser.order[i].prefix = k}
    IN  bp_parser.order[CHOOSE i \in at : \A j \in at : j <= i].primitive
KeysRecorded == {bp_parser.order[i].prefix : i \in DOMAIN bp_parser.order}
LoopRank(from) ==
    CASE from = "datasets" -> 1 [] from = "studies" -> 2 [] from = "beings" -> 3
ParserRuns == bp_parser.pc \notin {"off", "idle"}

C14_IntRoundTrip ==
    color_call.pc \in {"returned", "raised"} =>
        /\ color_call.alpha = Some(TRUE) =>
              /\ color_call.pc = "returned"
              /\ color_call.result = Some(color_call._original)
        /\ color_call.alpha = Some(FALSE) =>
              /\ color_call.pc = "returned"
              /\ color_call.result
                     = Some(Int32(color_call._original.hi,
                                  color_call._original.lo
                                      - (color_call._original.lo % 256)))

====
